---- MODULE Spec2Model ----
(***************************************************************************)
(* Mosaic plugin: image-to-tile matching and layout.                       *)
(*                                                                         *)
(* Signatures on the layout side are fixed-point numbers in tenths:        *)
(* brightness 5 is 0.5, colour channel 10 is 1.0.  Scores are kept exact:  *)
(* a score is a pair <<lin, sq>> standing for the real number              *)
(*     (lin + 4 * sqrt(sq / 3)) / 100                                      *)
(* so that 0.6*|db| is 6*db, the usage penalty count*0.01 is count, and    *)
(* the cap 0.1 is 10.                                                      *)
(***************************************************************************)
EXTENDS Integers, Sequences, FiniteSets, TLC

VARIABLES
    pc,               \* position of createMosaic
    width,            \* mosaicGroup width  = selectedImage.width  * enlargement
    height,           \* mosaicGroup height = selectedImage.height * enlargement
    tileSize,         \* config.tileSize
    imageData,        \* CellData[][] (rows of cells), 1-based sequences
    componentLibrary, \* ComponentData[], 1-based sequence
    xTileCount,
    yTileCount,
    x,                \* loop variables of the pass
    y,
    batchStartX,
    frameOnCanvas,    \* mosaicGroup is a child of the page
    children,         \* mosaicGroup.children, in append order
    componentUsage,   \* Map<string, number>, absent keys read as 0
    completedTiles,
    thrown,           \* placements that threw so far
    lastMatch,        \* the last matcher run: its cell, the usage it read, its choice
    choices,          \* history: the matcher's choice at every processed origin
    \* figma.ui.onmessage, 'create-mosaic': the grid size
    selWidth,         \* selectedImage.width
    selHeight,        \* selectedImage.height
    enlargement,      \* config.enlargement
    cfgTileSize,      \* config.tileSize
    gridWidth,
    gridHeight,
    gridPc,
    \* signature extraction in the UI context, and the fallback signatures
    source,           \* which producer of a Signature runs
    pixels,           \* ctx.getImageData(...).data as a sequence of RGBA pixels
    transparencyIsWhite,
    cellX,            \* fallback gradient: the cell and the grid size
    cellY,
    fbWidth,
    fbHeight,
    sig,              \* the Signature produced, channels as fractions <<num, den>>
    \* getImageData (plugin) and the 'process-image' handler (UI)
    run,              \* number of the current run, 0 before the first
    runGrid,          \* gridSize of the current run
    ipc,              \* position of getImageData
    handlerOn,        \* the run's 'message' handler is registered
    timers,           \* runs whose 10 s timer is armed
    uiWork,           \* 'process-image' requests the UI has not answered yet
    inbox,            \* 'image-data-result' messages on their way to the plugin,
                      \* each with a note of whether the UI could decode the image
    imgRegion,        \* the pixels of each cell region of the exported image
    imgWhite,         \* config.imageTransparencyIsWhite
    imgResult,        \* the CellData[][] getImageData resolved with
    resolvedBy,       \* what settled the promise
    firstRun,         \* history: how the first run's getImageData ended
    \* Variable-Size Tile Planner and the Layout Engine pass that drives it
    planPc,           \* position of the pass
    planGrid,         \* the Signature grid, channels in tenths
    planWidth,        \* columns
    planHeight,       \* rows
    tileSizeVariation,\* the 'tile-size' option: "1x", "2x" or "4x"
    tileBaseSize,     \* outputWidth / columnCount
    occupied,         \* the occupancy grid, as the set of occupied cells
    originX,          \* the origin the pass is at
    originY,
    lastPlan,         \* the Planner's latest call: origin, occupancy then, output
    footprints,       \* the Footprints accepted so far
    planPlacements,   \* the Placements emitted so far
    planUsage,        \* the Usage Counter of the pass
    components,       \* getComponentData: the candidates, by component id
    compPixels,       \* the pixels each candidate's export decodes to
    cacheWhite,       \* config.componentTransparencyIsWhite
    cachePc,          \* position of getComponentData
    compPc,           \* position of each candidate's promise
    pendingResults,   \* ids with a pending resolve
    compTimers,       \* candidates whose 5 s timer is armed
    uiCompWork,       \* 'process-component' requests the UI has not answered yet
    compInbox,        \* 'component-data-result' messages on their way to the plugin
    resolvedData,     \* the data each candidate's promise resolved with
    compFate,         \* history: what settled each candidate's promise
    cacheResults,     \* the array getComponentData returned
    cfgVariationCount,\* config.variationCount as the UI sent it
    vpc,              \* position of createMosaicVariations
    vi,               \* the loop index i
    variations,       \* the children of each variation frame created so far
    positionsToReplace,\* positions of the current variation still to be visited
    planned,          \* history: numToReplace of each variation
    replacements,     \* history: the replacements made in each variation
    variationThrows,  \* createInstance calls that threw during variations
    runPhase,         \* position of the 'create-mosaic' handler
    selectionLength,  \* figma.currentPage.selection.length
    cfgComponentId,   \* config.componentId, 0 when none is chosen
    componentNode,    \* what figma.getNodeById returns for it
    useComponentVariants,\* config.useComponentVariants
    rawComponentLibrary,\* the ids getComponentVariants returned
    notifications     \* the figma.notify messages of the run that report an outcome

layoutVars == <<pc, width, height, tileSize, imageData, componentLibrary,
                xTileCount, yTileCount, x, y, batchStartX, frameOnCanvas,
                children, componentUsage, completedTiles, thrown, lastMatch,
                choices>>

gridVars == <<selWidth, selHeight, enlargement, cfgTileSize, gridWidth, gridHeight, gridPc>>

extractVars == <<source, pixels, transparencyIsWhite, cellX, cellY, fbWidth, fbHeight, sig>>

imageVars == <<run, runGrid, ipc, handlerOn, timers, uiWork, inbox, imgRegion, imgWhite,
               imgResult, resolvedBy, firstRun>>

planVars == <<planPc, planGrid, planWidth, planHeight, tileSizeVariation, tileBaseSize,
              occupied, originX, originY, lastPlan, footprints, planPlacements, planUsage>>

cacheVars == <<components, compPixels, cacheWhite, cachePc, compPc, pendingResults, compTimers,
               uiCompWork, compInbox, resolvedData, compFate, cacheResults>>

variationVars == <<cfgVariationCount, vpc, vi, variations, positionsToReplace, planned,
                   replacements, variationThrows>>

runVars == <<runPhase, selectionLength, cfgComponentId, componentNode, useComponentVariants,
             rawComponentLibrary, notifications>>

runVarsButPhase == <<selectionLength, cfgComponentId, componentNode, useComponentVariants,
                     rawComponentLibrary, notifications>>

vars == <<layoutVars, gridVars, extractVars, imageVars, planVars, cacheVars, variationVars, runVars>>

NotLayout == <<gridVars, extractVars, imageVars, planVars, cacheVars, variationVars, runVars>>
NotGrid == <<layoutVars, extractVars, imageVars, planVars, cacheVars, variationVars, runVars>>
NotExtract == <<layoutVars, gridVars, imageVars, planVars, cacheVars, variationVars, runVars>>
NotImage == <<layoutVars, gridVars, extractVars, planVars, cacheVars, variationVars, runVars>>
NotPlan == <<layoutVars, gridVars, extractVars, imageVars, cacheVars, variationVars, runVars>>
NotCache == <<layoutVars, gridVars, extractVars, imageVars, planVars, variationVars, runVars>>
NotVariation == <<layoutVars, gridVars, extractVars, imageVars, planVars, cacheVars, runVars>>
NotLayoutOrVariation == <<gridVars, extractVars, imageVars, planVars, cacheVars, runVars>>
NotRun == <<layoutVars, gridVars, extractVars, imageVars, planVars, cacheVars, variationVars>>

-----------------------------------------------------------------------------
(* Bounds of the layout model *)

MaxWidth == 22
MaxHeight == 4
MaxCells == 24
MaxTileSize == 2
MaxThrows == 1

(* Program constants *)

BATCH_SIZE == 20
PenaltyCap == 10
MAX_VARIATIONS == 10
MIN_PERCENT == 5
MAX_PERCENT == 10

(* Bounds of the grid-size, extraction and fallback models *)

MaxImage == 6
MaxEnlargement == 2
MaxPixels == 5
MaxFallbackGrid == 4
MaxGrid == 3
MaxPlanWidth == 5
MaxPlanHeight == 4
MaxCandidates == 3
MaxVariationCount == 11
MaxVariants == 3

Min(a, b) == IF a < b THEN a ELSE b
Abs(a) == IF a < 0 THEN 0 - a ELSE a

NoSig == [none |-> TRUE]

(* The parts of the state a specification does not use stay at these values *)

LayoutIdle ==
    /\ pc = "idle"
    /\ width = 0 /\ height = 0 /\ tileSize = 1
    /\ imageData = <<>> /\ componentLibrary = <<>>
    /\ xTileCount = 0 /\ yTileCount = 0 /\ x = 0 /\ y = 0 /\ batchStartX = 0
    /\ frameOnCanvas = FALSE
    /\ children = <<>> /\ componentUsage = <<>> /\ completedTiles = 0
    /\ thrown = 0
    /\ lastMatch = [x |-> -1, y |-> -1]
    /\ choices = <<>>

GridIdle ==
    /\ selWidth = 1 /\ selHeight = 1 /\ enlargement = 1 /\ cfgTileSize = 1
    /\ gridWidth = 0 /\ gridHeight = 0
    /\ gridPc = "idle"

NoRun == [by |-> "none"]

ImageIdle ==
    /\ run = 0
    /\ runGrid = [width |-> 0, height |-> 0]
    /\ ipc = "idle"
    /\ handlerOn = FALSE
    /\ timers = {}
    /\ uiWork = <<>>
    /\ inbox = <<>>
    /\ imgRegion = <<>>
    /\ imgWhite = FALSE
    /\ imgResult = <<>>
    /\ resolvedBy = "none"
    /\ firstRun = NoRun

NoPlan == [size |-> 0]

PlanIdle ==
    /\ planPc = "idle"
    /\ planGrid = <<>>
    /\ planWidth = 0
    /\ planHeight = 0
    /\ tileSizeVariation = "1x"
    /\ tileBaseSize = 0
    /\ occupied = {}
    /\ originX = 0
    /\ originY = 0
    /\ lastPlan = NoPlan
    /\ footprints = <<>>
    /\ planPlacements = <<>>
    /\ planUsage = <<>>

CacheIdle ==
    /\ components = <<>>
    /\ compPixels = <<>>
    /\ cacheWhite = FALSE
    /\ cachePc = "idle"
    /\ compPc = <<>>
    /\ pendingResults = {}
    /\ compTimers = {}
    /\ uiCompWork = {}
    /\ compInbox = {}
    /\ resolvedData = <<>>
    /\ compFate = <<>>
    /\ cacheResults = <<>>

VariationIdle ==
    /\ cfgVariationCount = 1
    /\ vpc = "idle"
    /\ vi = 0
    /\ variations = <<>>
    /\ positionsToReplace = {}
    /\ planned = <<>>
    /\ replacements = <<>>
    /\ variationThrows = 0

\* figma.getNodeById found nothing
NoNode == [type |-> "NONE"]

RunIdle ==
    /\ runPhase = "idle"
    /\ selectionLength = 0
    /\ cfgComponentId = 0
    /\ componentNode = NoNode
    /\ useComponentVariants = FALSE
    /\ rawComponentLibrary = <<>>
    /\ notifications = <<>>

ExtractIdle ==
    /\ source = "idle"
    /\ pixels = <<>>
    /\ transparencyIsWhite = FALSE
    /\ cellX = 0 /\ cellY = 0 /\ fbWidth = 1 /\ fbHeight = 1
    /\ sig = NoSig

-----------------------------------------------------------------------------
(* Inputs of the layout: tile libraries and image signature grids *)

Tile(id, br, r, g, b) ==
    [id |-> id, brightness |-> br, r |-> r, g |-> g, b |-> b, transparencyRatio |-> 0]

Cell(br, r, g, b) ==
    [brightness |-> br, r |-> r, g |-> g, b |-> b, transparencyRatio |-> 0]

TileIds == {"A", "B", "C", "D"}

LibAB == <<Tile("A", 1, 5, 5, 5), Tile("B", 9, 5, 5, 5)>>
LibTwins == <<Tile("A", 5, 5, 5, 5), Tile("B", 5, 5, 5, 5)>>
LibAdvantage == <<Tile("A", 3, 5, 5, 5), Tile("B", 5, 5, 5, 5)>>
LibColour == <<Tile("A", 2, 10, 0, 0), Tile("B", 7, 0, 10, 0), Tile("C", 5, 3, 3, 8)>>
LibOne == <<Tile("A", 4, 2, 6, 9)>>

GreyCell == Cell(5, 5, 5, 5)

MixedCell(cx, cy) ==
    Cell((2 * cx + 3 * cy) % 11, (3 * cx + cy) % 11, (cx + 4 * cy) % 11, (5 * cx + 2 * cy) % 11)

ImageGrid(kind, cols, rows) ==
    [j \in 1..rows |-> [i \in 1..cols |->
        IF kind = "grey" THEN GreyCell ELSE MixedCell(i - 1, j - 1)]]

Scenarios ==
    { <<"grey", LibAB>>, <<"grey", LibTwins>>, <<"grey", LibAdvantage>>,
      <<"mixed", LibColour>>, <<"mixed", LibOne>> }

-----------------------------------------------------------------------------
(* Matcher *)

\* brightnessDiff * 0.6 + colorDiff * 0.4, colorDiff = sqrt(dr^2+dg^2+db^2)/sqrt(3)
BaseScoreBrightnessOnly(cellData, compData) ==
    [lin |-> 6 * Abs(cellData.brightness - compData.brightness), sq |-> 0]

BaseScore(cellData, compData) ==
    [lin |-> 6 * Abs(cellData.brightness - compData.brightness),
     sq  |-> (cellData.r - compData.r) * (cellData.r - compData.r)
           + (cellData.g - compData.g) * (cellData.g - compData.g)
           + (cellData.b - compData.b) * (cellData.b - compData.b)]

UsageCount(usage, id) == IF id \in DOMAIN usage THEN usage[id] ELSE 0

UncappedPenalty(usageCount) == usageCount
NoPenalty(usageCount) == 0

\* Math.min(usageCount * 0.01, 0.1)
UsagePenalty(usageCount) == Min(usageCount, PenaltyCap)

PenalizedScore(cellData, compData, usage) ==
    LET s == BaseScore(cellData, compData)
    IN  [lin |-> s.lin + UsagePenalty(UsageCount(usage, compData.id)), sq |-> s.sq]

\* s1 < s2 as real numbers: s1.lin + 4*sqrt(s1.sq/3) < s2.lin + 4*sqrt(s2.sq/3),
\* that is 3*D + sqrt(P) > sqrt(Q) with D = s2.lin - s1.lin, P = 48*s2.sq, Q = 48*s1.sq
ScoreLess(s1, s2) ==
    LET D == s2.lin - s1.lin
        P == 48 * s2.sq
        Q == 48 * s1.sq
    IN  IF D >= 0
        THEN LET R == Q - P - 9 * D * D
             IN  R < 0 \/ D * D * P > (R * R) \div 36
        ELSE LET R == P - Q - 9 * D * D
             IN  R > 0 /\ D * D * Q <= (R * R - 1) \div 36

ImprovesOrTies(cand, best) == ~ScoreLess(best, cand)

\* score + usagePenalty < bestScore
Improves(cand, best) == ScoreLess(cand, best)

\* The scoring loop; best = 0 stands for bestScore = Number.MAX_VALUE
RECURSIVE MatchFrom(_, _, _, _, _)
MatchFrom(cellData, lib, usage, i, best) ==
    IF i > Len(lib) THEN best
    ELSE IF best = 0
            \/ Improves(PenalizedScore(cellData, lib[i], usage),
                        PenalizedScore(cellData, lib[best], usage))
         THEN MatchFrom(cellData, lib, usage, i + 1, i)
         ELSE MatchFrom(cellData, lib, usage, i + 1, best)

\* index of bestMatch in the library
BestMatch(cellData, lib, usage) == MatchFrom(cellData, lib, usage, 1, 0)

-----------------------------------------------------------------------------
(* createMosaic: the primary pass *)

\* Math.floor(width / config.tileSize)
TileCount(size, tile) == size \div tile

\* Math.min(len - 1, Math.floor(k * len / count))
MapIndex(k, len, count) == Min(len - 1, (k * len) \div count)

NoMatch == [x |-> -1, y |-> -1]

PlacementTransposed(cx, cy, t, comp) ==
    [x |-> cy * t, y |-> cx * t, width |-> t, height |-> t, mainComponent |-> comp]

\* lines 455-459: the instance, its position and its size
Placement(cx, cy, t, comp) ==
    [x |-> cx * t, y |-> cy * t, width |-> t, height |-> t, mainComponent |-> comp]

LayoutInputs ==
    { <<w, h, t>> \in (0..MaxWidth) \X (0..MaxHeight) \X (1..MaxTileSize) :
        TileCount(w, t) * TileCount(h, t) <= MaxCells }

InitLayout ==
    /\ pc = "start"
    /\ \E in \in LayoutInputs, sc \in Scenarios :
        /\ width = in[1]
        /\ height = in[2]
        /\ tileSize = in[3]
        /\ imageData = ImageGrid(sc[1], TileCount(in[1], in[3]), TileCount(in[2], in[3]))
        /\ componentLibrary = sc[2]
    /\ xTileCount = 0
    /\ yTileCount = 0
    /\ x = 0
    /\ y = 0
    /\ batchStartX = 0
    /\ frameOnCanvas = FALSE
    /\ children = <<>>
    /\ componentUsage = <<>>
    /\ completedTiles = 0
    /\ thrown = 0
    /\ lastMatch = NoMatch
    /\ choices = <<>>
    /\ GridIdle
    /\ ExtractIdle
    /\ ImageIdle
    /\ PlanIdle
    /\ CacheIdle
    /\ VariationIdle
    /\ RunIdle

\* lines 360-408: the frame, the tile counts and the two early returns
CreateFrame ==
    /\ pc = "start"
    /\ xTileCount' = TileCount(width, tileSize)
    /\ yTileCount' = TileCount(height, tileSize)
    /\ IF xTileCount' <= 0 \/ yTileCount' <= 0
       THEN /\ frameOnCanvas' = FALSE
            /\ pc' = "aborted"
       ELSE IF Len(imageData) = 0 \/ Len(imageData[1]) = 0
       THEN /\ frameOnCanvas' = FALSE
            /\ pc' = "aborted"
       ELSE /\ frameOnCanvas' = TRUE
            /\ pc' = "tiles"
    /\ UNCHANGED <<width, height, tileSize, imageData, componentLibrary, x, y,
                   batchStartX, children, componentUsage, completedTiles, thrown,
                   lastMatch, choices>>
    /\ UNCHANGED NotLayout

BatchEndXWholeRow == xTileCount

\* line 412: const batchEndX = Math.min(batchStartX + BATCH_SIZE, xTileCount)
BatchEndX == Min(batchStartX + BATCH_SIZE, xTileCount)

IncrementUsageSkipped(usage, id) == usage
IncrementUsageForgetsOthers(usage, id) == id :> (UsageCount(usage, id) + 1)

\* lines 462-463: componentUsage.set(bestMatch.id, currentUsage + 1)
IncrementUsage(usage, id) ==
    [k \in DOMAIN usage \cup {id} |->
        IF k = id THEN UsageCount(usage, id) + 1 ELSE usage[k]]

\* the iteration without the try/catch around the tile: a throw ends the pass
ProcessTileThrowAborts ==
    /\ pc = "tiles"
    /\ LET mapX == MapIndex(x, Len(imageData[1]), xTileCount)
           mapY == MapIndex(y, Len(imageData), yTileCount)
           cellData == imageData[mapY + 1][mapX + 1]
           best == BestMatch(cellData, componentLibrary, componentUsage)
           bestMatch == componentLibrary[best].id
       IN  /\ lastMatch' = [x |-> x, y |-> y, cell |-> cellData,
                            usage |-> componentUsage, index |-> best,
                            tile |-> bestMatch]
           /\ \E throws \in BOOLEAN :
                /\ throws => thrown < MaxThrows
                /\ choices' = Append(choices,
                                [x |-> x, y |-> y, tile |-> bestMatch, placed |-> ~throws])
                /\ IF throws
                   THEN /\ thrown' = thrown + 1
                        /\ pc' = "aborted"
                        /\ UNCHANGED <<children, componentUsage, completedTiles>>
                   ELSE /\ children' = Append(children,
                                Placement(x, y, tileSize, bestMatch))
                        /\ componentUsage' = IncrementUsage(componentUsage, bestMatch)
                        /\ completedTiles' = completedTiles + 1
                        /\ pc' = IF x + 1 < BatchEndX THEN "tiles" ELSE "yield"
                        /\ UNCHANGED thrown
    /\ x' = x + 1
    /\ UNCHANGED <<width, height, tileSize, imageData, componentLibrary,
                   xTileCount, yTileCount, y, batchStartX, frameOnCanvas>>
    /\ UNCHANGED NotLayout

\* lines 415-473: one iteration of the batch loop, with its try/catch
ProcessTile ==
    /\ pc = "tiles"
    /\ LET mapX == MapIndex(x, Len(imageData[1]), xTileCount)
           mapY == MapIndex(y, Len(imageData), yTileCount)
           cellData == imageData[mapY + 1][mapX + 1]
           best == BestMatch(cellData, componentLibrary, componentUsage)
           bestMatch == componentLibrary[best].id
       IN  /\ lastMatch' = [x |-> x, y |-> y, cell |-> cellData,
                            usage |-> componentUsage, index |-> best,
                            tile |-> bestMatch]
           /\ \E throws \in BOOLEAN :
                /\ throws => thrown < MaxThrows
                /\ choices' = Append(choices,
                                [x |-> x, y |-> y, tile |-> bestMatch, placed |-> ~throws])
                /\ IF throws
                   THEN /\ thrown' = thrown + 1
                        /\ UNCHANGED <<children, componentUsage, completedTiles>>
                   ELSE /\ children' = Append(children,
                                Placement(x, y, tileSize, bestMatch))
                        /\ componentUsage' = IncrementUsage(componentUsage, bestMatch)
                        /\ completedTiles' = completedTiles + 1
                        /\ UNCHANGED thrown
    /\ x' = x + 1
    /\ pc' = IF x + 1 < BatchEndX THEN "tiles" ELSE "yield"
    /\ UNCHANGED <<width, height, tileSize, imageData, componentLibrary,
                   xTileCount, yTileCount, y, batchStartX, frameOnCanvas>>
    /\ UNCHANGED NotLayout

\* line 476 and the loop headers at 410-412: resume after the yield between batches
YieldBatch ==
    /\ pc = "yield"
    /\ IF batchStartX + BATCH_SIZE < xTileCount
       THEN /\ batchStartX' = batchStartX + BATCH_SIZE
            /\ x' = batchStartX + BATCH_SIZE
            /\ y' = y
            /\ pc' = "tiles"
       ELSE /\ batchStartX' = 0
            /\ x' = 0
            /\ y' = y + 1
            /\ pc' = IF y + 1 < yTileCount THEN "tiles" ELSE "done"
    /\ UNCHANGED <<width, height, tileSize, imageData, componentLibrary,
                   xTileCount, yTileCount, frameOnCanvas, children, componentUsage,
                   completedTiles, thrown, lastMatch, choices>>
    /\ UNCHANGED NotLayout

NextLayout == CreateFrame \/ ProcessTile \/ YieldBatch

SpecLayout == InitLayout /\ [][NextLayout]_vars

\* the passes followed to their end: a row longer than one batch, grids of
\* several rows, a one-cell grid, with a library of two and of three tiles
FairLayoutInputs ==
    {<<21, 1, 1, LibAB>>, <<3, 2, 1, LibAB>>, <<3, 2, 1, LibColour>>,
     <<5, 4, 2, LibColour>>, <<1, 1, 1, LibAB>>}

InitLayoutFair ==
    /\ InitLayout
    /\ <<width, height, tileSize, componentLibrary>> \in FairLayoutInputs

\* the timer of the yield always fires and the loops run on: the pass does not
\* stop while it has a step to take
LayoutFairness == WF_vars(NextLayout)

SpecLayoutFair == InitLayoutFair /\ [][NextLayout]_vars /\ LayoutFairness

\* lines 510-513: a host call outside the per-tile try throws and the catch of
\* createMosaic runs: it logs and notifies, and removes nothing. Before the
\* loops (364-377) the throw comes from createFrame (no frame yet) or from
\* resize or appendChild (the frame exists); after them (481-508) from the
\* final notification or from the start of createMosaicVariations.
FatalError ==
    /\ pc \in {"start", "done"}
    /\ vpc = "idle"
    /\ pc' = "failed"
    /\ frameOnCanvas' \in (IF pc = "start" THEN BOOLEAN ELSE {frameOnCanvas})
    /\ UNCHANGED <<width, height, tileSize, imageData, componentLibrary, xTileCount,
                   yTileCount, x, y, batchStartX, children, componentUsage, completedTiles,
                   thrown, lastMatch, choices>>
    /\ UNCHANGED NotLayout

NextLayoutFatal == CreateFrame \/ ProcessTile \/ YieldBatch \/ FatalError

\* the primary pass with host calls that may throw outside the per-tile try
SpecLayoutFatal == InitLayout /\ [][NextLayoutFatal]_vars

-----------------------------------------------------------------------------
(* figma.ui.onmessage, 'create-mosaic': the grid size handed to getImageData *)

GridInputs ==
    ((1..MaxImage) \X (1..MaxImage) \X (1..MaxEnlargement) \X (1..MaxTileSize))
        \cup {<<1000, 500, 1, 30>>, <<1000, 500, 1, 31>>}

InitGrid ==
    /\ \E in \in GridInputs :
        /\ selWidth = in[1]
        /\ selHeight = in[2]
        /\ enlargement = in[3]
        /\ cfgTileSize = in[4]
    /\ gridWidth = 0
    /\ gridHeight = 0
    /\ gridPc = "config"
    /\ LayoutIdle
    /\ ExtractIdle
    /\ ImageIdle
    /\ PlanIdle
    /\ CacheIdle
    /\ VariationIdle
    /\ RunIdle

\* Math.floor((selectedImage.width * config.enlargement) / config.tileSize)
GridCount(size, enl, tile) == (size * enl) \div tile

\* lines 632-635
ComputeGridSize ==
    /\ gridPc = "config"
    /\ gridWidth' = GridCount(selWidth, enlargement, cfgTileSize)
    /\ gridHeight' = GridCount(selHeight, enlargement, cfgTileSize)
    /\ gridPc' = "sized"
    /\ UNCHANGED <<selWidth, selHeight, enlargement, cfgTileSize>>
    /\ UNCHANGED NotGrid

NextGrid == ComputeGridSize

SpecGrid == InitGrid /\ [][NextGrid]_vars

-----------------------------------------------------------------------------
(* Signature extraction (UI context) and the fallback signatures *)

Pixel(r, g, b, a) == [r |-> r, g |-> g, b |-> b, a |-> a]

Palette ==
    { Pixel(0, 0, 0, 0), Pixel(255, 255, 255, 25), Pixel(200, 100, 50, 26),
      Pixel(255, 255, 255, 255), Pixel(255, 0, 0, 128) }

PixelBuffers == UNION {[1..n -> Palette] : n \in 1..MaxPixels}

\* a < 0.1 with a = alpha / 255
IsTransparent(px) == px.a * 10 < 255

\* totals are kept as integers: colour totals in units of 1/(255*255),
\* the brightness total in units of 1/(1000*255*255)
ZeroTotals ==
    [totalBrightness |-> 0, totalR |-> 0, totalG |-> 0, totalB |-> 0,
     totalPixels |-> 0, transparentPixels |-> 0]

AddPixelWhiteUncounted(acc, px, white) ==
    IF IsTransparent(px)
    THEN IF white
         THEN [acc EXCEPT !.transparentPixels = @ + 1,
                          !.totalR = @ + 65025, !.totalG = @ + 65025,
                          !.totalB = @ + 65025, !.totalBrightness = @ + 65025000]
         ELSE [acc EXCEPT !.transparentPixels = @ + 1]
    ELSE [acc EXCEPT !.totalR = @ + px.r * px.a, !.totalG = @ + px.g * px.a,
                     !.totalB = @ + px.b * px.a,
                     !.totalBrightness = @ + (299 * px.r + 587 * px.g + 114 * px.b) * px.a,
                     !.totalPixels = @ + 1]

\* ui.html 283-312 (image cell) and 389-418 (component): one sampled pixel
AddPixel(acc, px, white) ==
    IF IsTransparent(px)
    THEN IF white
         THEN [acc EXCEPT !.transparentPixels = @ + 1,
                          !.totalR = @ + 65025, !.totalG = @ + 65025,
                          !.totalB = @ + 65025, !.totalBrightness = @ + 65025000,
                          !.totalPixels = @ + 1]
         ELSE [acc EXCEPT !.transparentPixels = @ + 1]
    ELSE [acc EXCEPT !.totalR = @ + px.r * px.a, !.totalG = @ + px.g * px.a,
                     !.totalB = @ + px.b * px.a,
                     !.totalBrightness = @ + (299 * px.r + 587 * px.g + 114 * px.b) * px.a,
                     !.totalPixels = @ + 1]

\* for (let i = 0; i < imageData.length; i += 4 * stride)
RECURSIVE SamplePixels(_, _, _, _, _)
SamplePixels(pxs, i, stride, white, acc) ==
    IF i > Len(pxs) THEN acc
    ELSE SamplePixels(pxs, i + stride, stride, white, AddPixel(acc, pxs[i], white))

EmptyDefaultAlwaysWhite(white) == <<1, 1>>

\* transparencyIsWhite ? 1.0 : 0.0
EmptyDefault(white) == IF white THEN <<1, 1>> ELSE <<0, 1>>

\* the averages, the default of an empty region and the transparency ratio
Finalize(acc, n, white) ==
    IF acc.totalPixels > 0
    THEN [brightness |-> <<acc.totalBrightness, 65025000 * acc.totalPixels>>,
          r |-> <<acc.totalR, 65025 * acc.totalPixels>>,
          g |-> <<acc.totalG, 65025 * acc.totalPixels>>,
          b |-> <<acc.totalB, 65025 * acc.totalPixels>>,
          transparencyRatio |-> <<acc.transparentPixels, n>>]
    ELSE [brightness |-> EmptyDefault(white),
          r |-> EmptyDefault(white), g |-> EmptyDefault(white), b |-> EmptyDefault(white),
          transparencyRatio |-> <<acc.transparentPixels, n>>]

\* calculateImageData, one grid cell: every 4th pixel of the region is sampled
ImageCellSignature(pxs, white) ==
    Finalize(SamplePixels(pxs, 1, 4, white, ZeroTotals), Len(pxs), white)

\* calculateComponentData: every pixel is sampled
ComponentSignature(pxs, white) ==
    Finalize(SamplePixels(pxs, 1, 1, white, ZeroTotals), Len(pxs), white)

GradientCellScaledTwice(cx, cy, w, h) ==
    [brightness |-> <<6 * w * h + 8 * cx * h + 6 * cy * w, 10 * w * h>>,
     r |-> <<6 * w + 14 * cx, 10 * w>>,
     g |-> <<6 * h + 14 * cy, 10 * h>>,
     b |-> <<5, 10>>,
     transparencyRatio |-> <<0, 1>>]

\* getImageData, export failure: 0.3 + relativeX*0.4 + relativeY*0.3, ...
GradientCell(cx, cy, w, h) ==
    [brightness |-> <<3 * w * h + 4 * cx * h + 3 * cy * w, 10 * w * h>>,
     r |-> <<3 * w + 7 * cx, 10 * w>>,
     g |-> <<3 * h + 7 * cy, 10 * h>>,
     b |-> <<5, 10>>,
     transparencyRatio |-> <<0, 1>>]

TimeoutGradientCellFlat(cx, cy, w, h) ==
    [brightness |-> <<3, 10>>, r |-> <<3, 10>>, g |-> <<3, 10>>, b |-> <<5, 10>>,
     transparencyRatio |-> <<0, 1>>]

\* getImageData, timeout: the second copy of the gradient (lines 106-116)
TimeoutGradientCell(cx, cy, w, h) ==
    [brightness |-> <<3 * w * h + 4 * cx * h + 3 * cy * w, 10 * w * h>>,
     r |-> <<3 * w + 7 * cx, 10 * w>>,
     g |-> <<3 * h + 7 * cy, 10 * h>>,
     b |-> <<5, 10>>,
     transparencyRatio |-> <<0, 1>>]

NeutralSignatureBlack ==
    [brightness |-> <<0, 10>>, r |-> <<0, 10>>, g |-> <<0, 10>>, b |-> <<0, 10>>,
     transparencyRatio |-> <<0, 1>>]

\* getComponentData: {brightness: 0.5, color: {0.5, 0.5, 0.5}, transparencyRatio: 0}
NeutralSignature ==
    [brightness |-> <<5, 10>>, r |-> <<5, 10>>, g |-> <<5, 10>>, b |-> <<5, 10>>,
     transparencyRatio |-> <<0, 1>>]

InitExtract ==
    /\ \/ /\ source \in {"image-cell", "component"}
          /\ pixels \in PixelBuffers
          /\ transparencyIsWhite \in BOOLEAN
          /\ cellX = 0 /\ cellY = 0 /\ fbWidth = 1 /\ fbHeight = 1
       \/ /\ source = "gradient"
          /\ pixels = <<>>
          /\ transparencyIsWhite = FALSE
          /\ fbWidth \in 1..MaxFallbackGrid
          /\ fbHeight \in 1..MaxFallbackGrid
          /\ cellX \in 0..(fbWidth - 1)
          /\ cellY \in 0..(fbHeight - 1)
       \/ /\ source = "neutral"
          /\ pixels = <<>>
          /\ transparencyIsWhite = FALSE
          /\ cellX = 0 /\ cellY = 0 /\ fbWidth = 1 /\ fbHeight = 1
    /\ sig = NoSig
    /\ LayoutIdle
    /\ GridIdle
    /\ ImageIdle
    /\ PlanIdle
    /\ CacheIdle
    /\ VariationIdle
    /\ RunIdle

\* ui.html 268-334
ExtractImageCell ==
    /\ source = "image-cell"
    /\ sig = NoSig
    /\ sig' = ImageCellSignature(pixels, transparencyIsWhite)
    /\ UNCHANGED <<source, pixels, transparencyIsWhite, cellX, cellY, fbWidth, fbHeight>>
    /\ UNCHANGED NotExtract

\* ui.html 379-446
ExtractComponent ==
    /\ source = "component"
    /\ sig = NoSig
    /\ sig' = ComponentSignature(pixels, transparencyIsWhite)
    /\ UNCHANGED <<source, pixels, transparencyIsWhite, cellX, cellY, fbWidth, fbHeight>>
    /\ UNCHANGED NotExtract

\* part_000 56-69
GradientFallbackCell ==
    /\ source = "gradient"
    /\ sig = NoSig
    /\ sig' = GradientCell(cellX, cellY, fbWidth, fbHeight)
    /\ UNCHANGED <<source, pixels, transparencyIsWhite, cellX, cellY, fbWidth, fbHeight>>
    /\ UNCHANGED NotExtract

\* part_000 177-181 and 189-194
NeutralDefault ==
    /\ source = "neutral"
    /\ sig = NoSig
    /\ sig' = NeutralSignature
    /\ UNCHANGED <<source, pixels, transparencyIsWhite, cellX, cellY, fbWidth, fbHeight>>
    /\ UNCHANGED NotExtract

NextExtract == ExtractImageCell \/ ExtractComponent \/ GradientFallbackCell \/ NeutralDefault

SpecExtract == InitExtract /\ [][NextExtract]_vars

-----------------------------------------------------------------------------
(* getImageData: export, the request to the UI, the result and the timeout *)

\* lines 53-71: the fallback data map of an export failure
ExportFailureGrid(grid) ==
    [j \in 1..grid.height |-> [i \in 1..grid.width |->
        GradientCell(i - 1, j - 1, grid.width, grid.height)]]

\* lines 102-118: the fallback data map of the timeout
TimeoutGrid(grid) ==
    [j \in 1..grid.height |-> [i \in 1..grid.width |->
        TimeoutGradientCell(i - 1, j - 1, grid.width, grid.height)]]

\* ui.html 260-336: the data map of a decoded image
ExtractedGrid(grid, region, white) ==
    [j \in 1..grid.height |-> [i \in 1..grid.width |-> ImageCellSignature(region, white)]]

\* ui.html 505-515: the default map of a decode failure
DefaultGrid(grid) ==
    [j \in 1..grid.height |-> [i \in 1..grid.width |-> NeutralSignature]]

ImageRegions ==
    { <<Pixel(255, 255, 255, 255)>>,
      <<Pixel(200, 100, 50, 26), Pixel(0, 0, 0, 0)>> }

GridSizes == [width : 0..MaxGrid, height : 0..MaxGrid]

Runs == {1, 2}

InitImage ==
    /\ run = 0
    /\ runGrid = [width |-> 0, height |-> 0]
    /\ ipc = "idle"
    /\ handlerOn = FALSE
    /\ timers = {}
    /\ uiWork = <<>>
    /\ inbox = <<>>
    /\ imgRegion \in ImageRegions
    /\ imgWhite \in BOOLEAN
    /\ imgResult = <<>>
    /\ resolvedBy = "none"
    /\ firstRun = NoRun
    /\ LayoutIdle
    /\ GridIdle
    /\ ExtractIdle
    /\ PlanIdle
    /\ CacheIdle
    /\ VariationIdle
    /\ RunIdle

\* lines 643-647: a run calls getImageData with its grid size
CallGetImageData ==
    /\ ipc \in {"idle", "resolved"}
    /\ run + 1 \in Runs
    /\ run' = run + 1
    /\ runGrid' \in GridSizes
    /\ ipc' = "exporting"
    /\ firstRun' = IF ipc = "resolved"
                   THEN [by |-> resolvedBy, grid |-> runGrid, result |-> imgResult]
                   ELSE firstRun
    /\ imgResult' = <<>>
    /\ resolvedBy' = "none"
    /\ UNCHANGED <<handlerOn, timers, uiWork, inbox, imgRegion, imgWhite>>
    /\ UNCHANGED NotImage

\* lines 50-72: exportAsync rejects
ExportFails ==
    /\ ipc = "exporting"
    /\ imgResult' = ExportFailureGrid(runGrid)
    /\ resolvedBy' = "export-failure"
    /\ ipc' = "resolved"
    /\ UNCHANGED <<run, runGrid, handlerOn, timers, uiWork, inbox, imgRegion, imgWhite,
                   firstRun>>
    /\ UNCHANGED NotImage

\* lines 74-120: the request is posted, the handler registered, the timer armed.
\* The field "from" records which run posted the request; it is history only:
\* the messages of the program carry no such field and no handler reads it.
ExportSucceeds ==
    /\ ipc = "exporting"
    /\ uiWork' = Append(uiWork, [grid |-> runGrid, white |-> imgWhite, from |-> run])
    /\ handlerOn' = TRUE
    /\ timers' = timers \cup {run}
    /\ ipc' = "waiting"
    /\ UNCHANGED <<run, runGrid, inbox, imgRegion, imgWhite, imgResult, resolvedBy,
                   firstRun>>
    /\ UNCHANGED NotImage

\* ui.html 486-523: the UI answers the oldest request, with the extracted map
\* or, when decoding fails, with the default map
UIProcessImage ==
    /\ uiWork # <<>>
    /\ \E decoded \in BOOLEAN :
        inbox' = Append(inbox,
                    [decoded |-> decoded,
                     dataMap |-> IF decoded
                                 THEN ExtractedGrid(Head(uiWork).grid, imgRegion,
                                                    Head(uiWork).white)
                                 ELSE DefaultGrid(Head(uiWork).grid),
                     from |-> Head(uiWork).from])
    /\ uiWork' = Tail(uiWork)
    /\ UNCHANGED <<run, runGrid, ipc, handlerOn, timers, imgRegion, imgWhite, imgResult,
                   resolvedBy, firstRun>>
    /\ UNCHANGED NotImage

\* lines 86-92 (and 669-672 when no handler is registered)
ReceiveImageResult ==
    /\ inbox # <<>>
    /\ inbox' = Tail(inbox)
    /\ IF handlerOn
       THEN /\ handlerOn' = FALSE
            /\ imgResult' = Head(inbox).dataMap
            /\ resolvedBy' = IF Head(inbox).decoded THEN "result" ELSE "decode-failure"
            /\ ipc' = "resolved"
       ELSE UNCHANGED <<handlerOn, imgResult, resolvedBy, ipc>>
    /\ UNCHANGED <<run, runGrid, timers, uiWork, imgRegion, imgWhite, firstRun>>
    /\ UNCHANGED NotImage

\* lines 97-120: the timer of run r fires; resolve() of a settled promise and
\* off() of a handler that is no longer registered do nothing
ImageTimeout ==
    /\ \E r \in timers :
        /\ timers' = timers \ {r}
        /\ IF r = run /\ ipc = "waiting"
           THEN /\ handlerOn' = FALSE
                /\ imgResult' = TimeoutGrid(runGrid)
                /\ resolvedBy' = "timeout"
                /\ ipc' = "resolved"
           ELSE UNCHANGED <<handlerOn, imgResult, resolvedBy, ipc>>
    /\ UNCHANGED <<run, runGrid, uiWork, inbox, imgRegion, imgWhite, firstRun>>
    /\ UNCHANGED NotImage

NextImage ==
    \/ CallGetImageData
    \/ ExportFails
    \/ ExportSucceeds
    \/ UIProcessImage
    \/ ReceiveImageResult
    \/ ImageTimeout

SpecImage == InitImage /\ [][NextImage]_vars

-----------------------------------------------------------------------------
(* Variable-Size Tile Planner and the Layout Engine pass that drives it *)

MaxSizeOfAlwaysFour(mode) == 4

\* the 'tile-size' options: 1x (uniform), 1x, 2x (variable), 1x, 2x, 4x (highly variable)
MaxSizeOf(mode) ==
    CASE mode = "1x" -> 1
      [] mode = "2x" -> 2
      [] mode = "4x" -> 4

\* the cells of the size x size block at origin (ox, oy)
BlockCells(ox, oy, size) ==
    {<<ox + dx, oy + dy>> : dx \in 0..(size - 1), dy \in 0..(size - 1)}

InGrid(c, w, h) == c[1] \in 0..(w - 1) /\ c[2] \in 0..(h - 1)

\* every cell of the block is inside the grid and unoccupied
BlockFree(ox, oy, size, w, h, occ) ==
    \A c \in BlockCells(ox, oy, size) : InGrid(c, w, h) /\ c \notin occ

SignatureAt(grid, c) == grid[c[2] + 1][c[1] + 1]

RECURSIVE ChannelSum(_, _, _)
ChannelSum(grid, cells, ch) ==
    IF cells = {} THEN 0
    ELSE LET c == CHOOSE d \in cells : TRUE
         IN  SignatureAt(grid, c)[ch] + ChannelSum(grid, cells \ {c}, ch)

HomogeneousBrightnessOnly(grid, cells) ==
    LET n  == Cardinality(cells)
        sb == ChannelSum(grid, cells, "brightness")
    IN  \A c \in cells : Abs(n * SignatureAt(grid, c).brightness - sb) < n

\* maxBrightnessDev < 0.1 AND maxColorDev < 0.15 over the block, with the
\* means kept as sums over the n cells
Homogeneous(grid, cells) ==
    LET n  == Cardinality(cells)
        sb == ChannelSum(grid, cells, "brightness")
        sr == ChannelSum(grid, cells, "r")
        sg == ChannelSum(grid, cells, "g")
        sc == ChannelSum(grid, cells, "b")
    IN  \A c \in cells :
            LET v == SignatureAt(grid, c)
            IN  /\ Abs(n * v.brightness - sb) < n
                /\ 4 * ( (n * v.r - sr) * (n * v.r - sr)
                       + (n * v.g - sg) * (n * v.g - sg)
                       + (n * v.b - sc) * (n * v.b - sc) ) < 9 * n * n

\* a candidate size is rejected when a cell is out of bounds or occupied,
\* and accepted only when the block is homogeneous
Accepts(grid, ox, oy, size, w, h, occ) ==
    /\ BlockFree(ox, oy, size, w, h, occ)
    /\ Homogeneous(grid, BlockCells(ox, oy, size))

\* size-up: try 2, and only if 2 is accepted, try 4
PlanSizeJumpToFour(grid, ox, oy, maxSize, w, h, occ) ==
    IF maxSize >= 4 /\ Accepts(grid, ox, oy, 4, w, h, occ) THEN 4
    ELSE IF maxSize >= 2 /\ Accepts(grid, ox, oy, 2, w, h, occ) THEN 2
    ELSE 1

PlanSize(grid, ox, oy, maxSize, w, h, occ) ==
    IF maxSize >= 2 /\ Accepts(grid, ox, oy, 2, w, h, occ)
    THEN IF maxSize >= 4 /\ Accepts(grid, ox, oy, 4, w, h, occ) THEN 4 ELSE 2
    ELSE 1

\* {size, aggregateBrightness, aggregateColor}, the aggregates as <<sum, n>>
Planner(grid, ox, oy, maxSize, w, h, occ) ==
    LET size  == PlanSize(grid, ox, oy, maxSize, w, h, occ)
        cells == BlockCells(ox, oy, size)
    IN  [size |-> size,
         aggregateBrightness |-> <<ChannelSum(grid, cells, "brightness"), size * size>>,
         aggregateColor |-> [r |-> <<ChannelSum(grid, cells, "r"), size * size>>,
                             g |-> <<ChannelSum(grid, cells, "g"), size * size>>,
                             b |-> <<ChannelSum(grid, cells, "b"), size * size>>]]

\* the largest block of unoccupied neighbours at the origin
AvailableSize(ox, oy, w, h, occ) ==
    IF BlockFree(ox, oy, 2, w, h, occ)
    THEN IF BlockFree(ox, oy, 4, w, h, occ) THEN 4 ELSE 2
    ELSE 1

OddKinds == {"bright", "mild", "colour"}

OddCell(kind) ==
    CASE kind = "bright" -> Cell(8, 5, 5, 5)
      [] kind = "mild"   -> Cell(6, 5, 5, 5)
      [] kind = "colour" -> Cell(5, 8, 5, 5)

\* a solid grey grid, and the same grid with one cell that differs
PlainGrid(w, h) == [j \in 1..h |-> [i \in 1..w |-> GreyCell]]
OddGrid(w, h, ox, oy, kind) ==
    [j \in 1..h |-> [i \in 1..w |-> IF i = ox + 1 /\ j = oy + 1 THEN OddCell(kind) ELSE GreyCell]]

\* a grid whose first 2x2 block spreads more in red than the 4x4 block around
\* it: red 0.5, 0.5, 0.5, 0.7 in the block and 0.6 everywhere else
SplitGrid(w, h) ==
    [j \in 1..h |-> [i \in 1..w |->
        IF i <= 2 /\ j <= 2
        THEN (IF i = 2 /\ j = 2 THEN Cell(5, 7, 5, 5) ELSE GreyCell)
        ELSE Cell(5, 6, 5, 5)]]

PlanGrids(w, h) ==
    {PlainGrid(w, h), SplitGrid(w, h)} \cup
    {OddGrid(w, h, ox, oy, k) : ox \in 0..(w - 1), oy \in 0..(h - 1), k \in OddKinds}

InitPlan ==
    /\ planPc = "pass"
    /\ planWidth \in 1..MaxPlanWidth
    /\ planHeight \in 1..MaxPlanHeight
    /\ planGrid \in PlanGrids(planWidth, planHeight)
    /\ tileSizeVariation \in {"1x", "2x", "4x"}
    /\ tileBaseSize \in 1..MaxTileSize
    /\ occupied = {}
    /\ originX = 0
    /\ originY = 0
    /\ lastPlan = NoPlan
    /\ footprints = <<>>
    /\ planPlacements = <<>>
    /\ planUsage = <<>>
    /\ LayoutIdle
    /\ GridIdle
    /\ ExtractIdle
    /\ ImageIdle
    /\ CacheIdle
    /\ VariationIdle
    /\ RunIdle

\* row-major order
NextOriginX == IF originX + 1 < planWidth THEN originX + 1 ELSE 0
NextOriginY == IF originX + 1 < planWidth THEN originY ELSE originY + 1

\* an origin already marked occupied is skipped
SkipOrigin ==
    /\ planPc = "pass"
    /\ originY < planHeight
    /\ <<originX, originY>> \in occupied
    /\ originX' = NextOriginX
    /\ originY' = NextOriginY
    /\ UNCHANGED <<planPc, planGrid, planWidth, planHeight, tileSizeVariation, tileBaseSize,
                   occupied, lastPlan, footprints, planPlacements, planUsage>>
    /\ UNCHANGED NotPlan

\* a free origin: availability, the Planner, the Matcher on the aggregate
\* signature, the footprint marked occupied, one Placement, the Usage Counter
PlaceAtOrigin ==
    /\ planPc = "pass"
    /\ originY < planHeight
    /\ <<originX, originY>> \notin occupied
    /\ LET allowed == Min(MaxSizeOf(tileSizeVariation),
                          AvailableSize(originX, originY, planWidth, planHeight, occupied))
           plan == Planner(planGrid, originX, originY, allowed, planWidth, planHeight,
                           occupied)
           best == BestMatch(plan, LibOne, planUsage)
           id   == LibOne[best].id
       IN  /\ lastPlan' = [x |-> originX, y |-> originY, before |-> occupied, plan |-> plan,
                           size |-> plan.size]
           /\ occupied' = occupied \cup BlockCells(originX, originY, plan.size)
           /\ footprints' = Append(footprints,
                                [originX |-> originX, originY |-> originY, size |-> plan.size])
           /\ planPlacements' = Append(planPlacements,
                                [x |-> originX * tileBaseSize, y |-> originY * tileBaseSize,
                                 width |-> plan.size * tileBaseSize,
                                 height |-> plan.size * tileBaseSize, tileId |-> id])
           /\ planUsage' = (id :> UsageCount(planUsage, id) + 1) @@ planUsage
    /\ originX' = NextOriginX
    /\ originY' = NextOriginY
    /\ UNCHANGED <<planPc, planGrid, planWidth, planHeight, tileSizeVariation, tileBaseSize>>
    /\ UNCHANGED NotPlan

\* the pass ends after the last origin
FinishPass ==
    /\ planPc = "pass"
    /\ originY >= planHeight
    /\ planPc' = "done"
    /\ UNCHANGED <<planGrid, planWidth, planHeight, tileSizeVariation, tileBaseSize, occupied,
                   originX, originY, lastPlan, footprints, planPlacements, planUsage>>
    /\ UNCHANGED NotPlan

NextPlan ==
    \/ SkipOrigin
    \/ PlaceAtOrigin
    \/ FinishPass

SpecPlan == InitPlan /\ [][NextPlan]_vars

-----------------------------------------------------------------------------
(* getComponentData: one export, one request and one 5 s timer per candidate *)

\* the pixels a candidate's PNG decodes to
CandidatePixels(id) ==
    CASE id % 3 = 1 -> <<Pixel(255, 255, 255, 255)>>
      [] id % 3 = 2 -> <<Pixel(200, 100, 50, 26), Pixel(0, 0, 0, 0)>>
      [] id % 3 = 0 -> <<Pixel(255, 0, 0, 128), Pixel(255, 255, 255, 25)>>

\* libraries of distinct component ids, in two different orders
CandidateLists ==
    {[i \in 1..n |-> i] : n \in 1..MaxCandidates}
        \cup {[i \in 1..MaxCandidates |-> MaxCandidates + 1 - i]}

NoData == [none |-> TRUE]

InitCache ==
    /\ components \in CandidateLists
    /\ compPixels = [id \in 1..MaxCandidates |-> CandidatePixels(id)]
    /\ cacheWhite \in BOOLEAN
    /\ cachePc = "called"
    /\ compPc = [i \in DOMAIN components |-> "start"]
    /\ pendingResults = {}
    /\ compTimers = {}
    /\ uiCompWork = {}
    /\ compInbox = {}
    /\ resolvedData = [i \in DOMAIN components |-> NoData]
    /\ compFate = [i \in DOMAIN components |-> "none"]
    /\ cacheResults = <<>>
    /\ LayoutIdle
    /\ GridIdle
    /\ ExtractIdle
    /\ ImageIdle
    /\ PlanIdle
    /\ VariationIdle
    /\ RunIdle

\* position of a component id in the candidate list
IndexOf(id) == CHOOSE i \in DOMAIN components : components[i] = id

ResultsWithoutDefaults(comps, data) ==
    SelectSeq([i \in DOMAIN comps |-> [component |-> comps[i], data |-> data[i]]],
              LAMBDA e : e.data # NeutralSignature)

\* Promise.all over components.map: {component, ...data} per candidate, in order
CollectResults(comps, data) ==
    [i \in DOMAIN comps |-> [component |-> comps[i], data |-> data[i]]]

\* lines 139-153: the handler is registered and every candidate's export starts
StartComponentData ==
    /\ cachePc = "called"
    /\ cachePc' = "waiting"
    /\ compPc' = [i \in DOMAIN components |-> "exporting"]
    /\ UNCHANGED <<components, compPixels, cacheWhite, pendingResults, compTimers,
                   uiCompWork, compInbox, resolvedData, compFate, cacheResults>>
    /\ UNCHANGED NotCache

\* lines 186-194: exportAsync of candidate i rejects
ComponentExportFails ==
    /\ \E i \in DOMAIN components :
        /\ compPc[i] = "exporting"
        /\ compPc' = [compPc EXCEPT ![i] = "settled"]
        /\ resolvedData' = [resolvedData EXCEPT ![i] = NeutralSignature]
        /\ compFate' = [compFate EXCEPT ![i] = "export-failure"]
    /\ UNCHANGED <<components, compPixels, cacheWhite, cachePc, pendingResults, compTimers,
                   uiCompWork, compInbox, cacheResults>>
    /\ UNCHANGED NotCache

\* lines 156-184: the resolve is stored, the request posted, the timer armed
ComponentExportSucceeds ==
    /\ \E i \in DOMAIN components :
        /\ compPc[i] = "exporting"
        /\ compPc' = [compPc EXCEPT ![i] = "pending"]
        /\ pendingResults' = pendingResults \cup {components[i]}
        /\ uiCompWork' = uiCompWork \cup
                {[componentId |-> components[i], white |-> cacheWhite]}
        /\ compTimers' = compTimers \cup {i}
    /\ UNCHANGED <<components, compPixels, cacheWhite, cachePc, compInbox, resolvedData,
                   compFate, cacheResults>>
    /\ UNCHANGED NotCache

\* ui.html 525-556: the UI answers a request, with the extracted data or,
\* when decoding fails, with the default values
UIProcessComponent ==
    /\ \E req \in uiCompWork, decoded \in BOOLEAN :
        /\ uiCompWork' = uiCompWork \ {req}
        /\ compInbox' = compInbox \cup
                {[componentId |-> req.componentId,
                  decoded |-> decoded,
                  componentData |-> IF decoded
                                    THEN ComponentSignature(compPixels[req.componentId],
                                                            req.white)
                                    ELSE NeutralSignature]}
    /\ UNCHANGED <<components, compPixels, cacheWhite, cachePc, compPc, pendingResults,
                   compTimers, resolvedData, compFate, cacheResults>>
    /\ UNCHANGED NotCache

\* lines 139-148: messageHandler
ReceiveComponentResult ==
    /\ \E msg \in compInbox :
        /\ compInbox' = compInbox \ {msg}
        /\ IF cachePc = "waiting" /\ msg.componentId \in pendingResults
           THEN LET i == IndexOf(msg.componentId)
                IN  /\ pendingResults' = pendingResults \ {msg.componentId}
                    /\ compPc' = [compPc EXCEPT ![i] = "settled"]
                    /\ resolvedData' = [resolvedData EXCEPT ![i] = msg.componentData]
                    /\ compFate' = [compFate EXCEPT ![i] =
                                        IF msg.decoded THEN "result" ELSE "decode-failure"]
           ELSE UNCHANGED <<pendingResults, compPc, resolvedData, compFate>>
    /\ UNCHANGED <<components, compPixels, cacheWhite, cachePc, compTimers, uiCompWork,
                   cacheResults>>
    /\ UNCHANGED NotCache

ComponentTimeoutWithoutResolve ==
    /\ \E i \in compTimers : compTimers' = compTimers \ {i}
    /\ UNCHANGED <<components, compPixels, cacheWhite, cachePc, compPc, pendingResults,
                   uiCompWork, compInbox, resolvedData, compFate, cacheResults>>
    /\ UNCHANGED NotCache

ComponentTimeoutOverwrites ==
    /\ \E i \in compTimers :
        /\ compTimers' = compTimers \ {i}
        /\ pendingResults' = pendingResults \ {components[i]}
        /\ compPc' = [compPc EXCEPT ![i] = "settled"]
        /\ resolvedData' = [resolvedData EXCEPT ![i] = NeutralSignature]
        /\ compFate' = [compFate EXCEPT ![i] = "timeout"]
    /\ UNCHANGED <<components, compPixels, cacheWhite, cachePc, uiCompWork, compInbox,
                   cacheResults>>
    /\ UNCHANGED NotCache

\* lines 171-182: the timer of candidate i fires
ComponentTimeout ==
    /\ \E i \in compTimers :
        /\ compTimers' = compTimers \ {i}
        /\ IF components[i] \in pendingResults
           THEN /\ pendingResults' = pendingResults \ {components[i]}
                /\ compPc' = [compPc EXCEPT ![i] = "settled"]
                /\ resolvedData' = [resolvedData EXCEPT ![i] = NeutralSignature]
                /\ compFate' = [compFate EXCEPT ![i] = "timeout"]
           ELSE UNCHANGED <<pendingResults, compPc, resolvedData, compFate>>
    /\ UNCHANGED <<components, compPixels, cacheWhite, cachePc, uiCompWork, compInbox,
                   cacheResults>>
    /\ UNCHANGED NotCache

\* lines 198-204: Promise.all resolves, the handler is removed, results returned
ReturnComponentData ==
    /\ cachePc = "waiting"
    /\ \A i \in DOMAIN components : compPc[i] = "settled"
    /\ cacheResults' = CollectResults(components, resolvedData)
    /\ cachePc' = "returned"
    /\ UNCHANGED <<components, compPixels, cacheWhite, compPc, pendingResults, compTimers,
                   uiCompWork, compInbox, resolvedData, compFate>>
    /\ UNCHANGED NotCache

NextCache ==
    \/ StartComponentData
    \/ ComponentExportFails
    \/ ComponentExportSucceeds
    \/ UIProcessComponent
    \/ ReceiveComponentResult
    \/ ComponentTimeout
    \/ ReturnComponentData

SpecCache == InitCache /\ [][NextCache]_vars

-----------------------------------------------------------------------------
(* createMosaicVariations, after the primary pass of createMosaic *)

LibFour ==
    <<Tile("A", 5, 5, 5, 5), Tile("B", 6, 5, 5, 5), Tile("C", 8, 5, 5, 5),
      Tile("D", 2, 5, 5, 5)>>

UnclampedVariationCount(n) == n

\* Math.min(config.variationCount, 10)
EffectiveVariationCount(n) == Min(n, MAX_VARIATIONS)

\* width, height, tileSize, image, library and variation counts of a run:
\* a one-cell mosaic with every variation count, larger ones with few variations
VariationInputs ==
    ({<<1, 1, 1>>} \X {<<"grey", LibAB>>} \X (0..MaxVariationCount))
        \cup ({<<10, 2, 1>>} \X {<<"grey", LibOne>>} \X {2})
        \cup ({<<10, 1, 1>>} \X {<<"grey", LibAB>>} \X {2})
        \cup ({<<20, 2, 2>>} \X {<<"mixed", LibColour>>} \X {2})
        \cup ({<<5, 2, 1>>} \X {<<"grey", LibFour>>} \X {2, 3})

InitVariation ==
    /\ pc = "start"
    /\ \E in \in VariationInputs :
        /\ width = in[1][1]
        /\ height = in[1][2]
        /\ tileSize = in[1][3]
        /\ imageData = ImageGrid(in[2][1], TileCount(in[1][1], in[1][3]),
                                 TileCount(in[1][2], in[1][3]))
        /\ componentLibrary = in[2][2]
        /\ cfgVariationCount = in[3]
    /\ xTileCount = 0
    /\ yTileCount = 0
    /\ x = 0
    /\ y = 0
    /\ batchStartX = 0
    /\ frameOnCanvas = FALSE
    /\ children = <<>>
    /\ componentUsage = <<>>
    /\ completedTiles = 0
    /\ thrown = 0
    /\ lastMatch = NoMatch
    /\ choices = <<>>
    /\ vpc = "idle"
    /\ vi = 0
    /\ variations = <<>>
    /\ positionsToReplace = {}
    /\ planned = <<>>
    /\ replacements = <<>>
    /\ variationThrows = 0
    /\ GridIdle
    /\ ExtractIdle
    /\ ImageIdle
    /\ PlanIdle
    /\ CacheIdle
    /\ RunIdle

\* Math.floor((replacementPercentage / 100) * totalInstances)
NumToReplace(percentage, total) == (percentage * total) \div 100

\* the index of the instance of a frame at grid position pos, 0 if there is none
InstanceAt(frame, pos) ==
    IF \E k \in 1..Len(frame) :
            frame[k].x \div tileSize = pos[1] /\ frame[k].y \div tileSize = pos[2]
    THEN CHOOSE k \in 1..Len(frame) :
            /\ frame[k].x \div tileSize = pos[1] /\ frame[k].y \div tileSize = pos[2]
            /\ \A l \in 1..(k - 1) :
                ~(frame[l].x \div tileSize = pos[1] /\ frame[l].y \div tileSize = pos[2])
    ELSE 0

AllComponents(lib, current) == lib

\* componentLibrary.filter(comp => comp.component.id !== currentComponent.id)
OtherComponents(lib, current) == SelectSeq(lib, LAMBDA comp : comp.id # current)

\* insertion of one alternative into a list sorted by score, after its equals
RECURSIVE InsertByScore(_, _, _)
InsertByScore(sorted, comp, cellData) ==
    IF sorted = <<>> THEN <<comp>>
    ELSE IF ScoreLess(BaseScore(cellData, comp), BaseScore(cellData, Head(sorted)))
         THEN <<comp>> \o sorted
         ELSE <<Head(sorted)>> \o InsertByScore(Tail(sorted), comp, cellData)

\* alternativeComponents.sort((a, b) => a.score - b.score), a stable sort
RECURSIVE SortByScore(_, _)
SortByScore(alts, cellData) ==
    IF alts = <<>> THEN <<>>
    ELSE InsertByScore(SortByScore(SubSeq(alts, 1, Len(alts) - 1), cellData),
                       alts[Len(alts)], cellData)

RemoveNothing(seq, k) == seq

\* the sequence without its k-th element
RemoveAt(seq, k) == SubSeq(seq, 1, k - 1) \o SubSeq(seq, k + 1, Len(seq))

\* the sets positionsToReplace can end up as: any k distinct positions
RECURSIVE SubsetsOfSize(_, _)
SubsetsOfSize(S, k) ==
    IF k = 0 THEN {{}}
    ELSE UNION {{T \cup {e} : T \in SubsetsOfSize(S \ {e}, k - 1)} : e \in S}

StartVariationsBeforeDone ==
    /\ pc \in {"tiles", "yield", "done"}
    /\ vpc = "idle"
    /\ IF EffectiveVariationCount(cfgVariationCount) > 1
       THEN /\ vpc' = "loop"
            /\ vi' = 1
       ELSE /\ vpc' = "finished"
            /\ vi' = vi
    /\ UNCHANGED <<cfgVariationCount, variations, positionsToReplace, planned, replacements,
                   variationThrows>>
    /\ UNCHANGED layoutVars
    /\ UNCHANGED NotLayoutOrVariation

\* createMosaic 499-509 and lines 217-255: the call, the parent frame, the clone
StartVariations ==
    /\ pc = "done"
    /\ vpc = "idle"
    /\ IF EffectiveVariationCount(cfgVariationCount) > 1
       THEN /\ vpc' = "loop"
            /\ vi' = 1
       ELSE /\ vpc' = "finished"
            /\ vi' = vi
    /\ UNCHANGED <<cfgVariationCount, variations, positionsToReplace, planned, replacements,
                   variationThrows>>
    /\ UNCHANGED layoutVars
    /\ UNCHANGED NotLayoutOrVariation

\* lines 258-277: the clone, the percentage and the positions to replace
BeginVariation ==
    /\ vpc = "loop"
    /\ vi < EffectiveVariationCount(cfgVariationCount)
    /\ variations' = Append(variations, children)
    /\ \E percentage \in MIN_PERCENT..MAX_PERCENT :
        LET numToReplace == NumToReplace(percentage, xTileCount * yTileCount)
        IN  /\ planned' = Append(planned, numToReplace)
            /\ \E chosen \in SubsetsOfSize((0..(xTileCount - 1)) \X (0..(yTileCount - 1)),
                                           numToReplace) :
                positionsToReplace' = chosen
    /\ replacements' = Append(replacements, <<>>)
    /\ vpc' = "replacing"
    /\ UNCHANGED <<cfgVariationCount, vi, variationThrows>>
    /\ UNCHANGED layoutVars
    /\ UNCHANGED NotLayoutOrVariation

\* lines 280-338: one position of positionsToReplace.forEach
ReplaceInstance ==
    /\ vpc = "replacing"
    /\ \E pos \in positionsToReplace :
        LET newMosaic == variations[Len(variations)]
            k == InstanceAt(newMosaic, pos)
        IN  IF k = 0
            THEN /\ positionsToReplace' = positionsToReplace \ {pos}
                 /\ UNCHANGED <<variations, replacements, variationThrows, vpc, vi>>
            ELSE
              LET instance == newMosaic[k]
                  mapX == MapIndex(pos[1], Len(imageData[1]), xTileCount)
                  mapY == MapIndex(pos[2], Len(imageData), yTileCount)
                  cellData == imageData[mapY + 1][mapX + 1]
                  alternativeComponents ==
                      SortByScore(OtherComponents(componentLibrary, instance.mainComponent),
                                  cellData)
              IN  IF alternativeComponents = <<>>
                  THEN /\ positionsToReplace' = positionsToReplace \ {pos}
                       /\ UNCHANGED <<variations, replacements, variationThrows, vpc, vi>>
                  ELSE \E randomIndex \in 1..Min(3, Len(alternativeComponents)),
                          throws \in BOOLEAN :
                        /\ throws => variationThrows < MaxThrows
                        /\ IF throws
                           THEN /\ variationThrows' = variationThrows + 1
                                /\ positionsToReplace' = {}
                                /\ vi' = vi + 1
                                /\ vpc' = "loop"
                                /\ UNCHANGED <<variations, replacements>>
                           ELSE /\ variations' =
                                    [variations EXCEPT ![Len(variations)] =
                                        Append(RemoveAt(newMosaic, k),
                                            [instance EXCEPT !.mainComponent =
                                                alternativeComponents[randomIndex].id])]
                                /\ replacements' =
                                    [replacements EXCEPT ![Len(replacements)] =
                                        Append(@, [x |-> pos[1], y |-> pos[2],
                                                   old |-> instance.mainComponent,
                                                   new |-> alternativeComponents[randomIndex].id,
                                                   rank |-> randomIndex])]
                                /\ positionsToReplace' = positionsToReplace \ {pos}
                                /\ UNCHANGED <<variationThrows, vpc, vi>>
    /\ UNCHANGED <<cfgVariationCount, planned>>
    /\ UNCHANGED layoutVars
    /\ UNCHANGED NotLayoutOrVariation

\* lines 341-344: the yield after a variation, and the next i
EndVariation ==
    /\ vpc = "replacing"
    /\ positionsToReplace = {}
    /\ vi' = vi + 1
    /\ vpc' = "loop"
    /\ UNCHANGED <<cfgVariationCount, variations, positionsToReplace, planned, replacements,
                   variationThrows>>
    /\ UNCHANGED layoutVars
    /\ UNCHANGED NotLayoutOrVariation

\* lines 258 and 350: the loop ends
FinishVariations ==
    /\ vpc = "loop"
    /\ vi >= EffectiveVariationCount(cfgVariationCount)
    /\ vpc' = "finished"
    /\ UNCHANGED <<cfgVariationCount, vi, variations, positionsToReplace, planned,
                   replacements, variationThrows>>
    /\ UNCHANGED layoutVars
    /\ UNCHANGED NotLayoutOrVariation

NextVariation ==
    \/ CreateFrame
    \/ ProcessTile
    \/ YieldBatch
    \/ StartVariations
    \/ BeginVariation
    \/ ReplaceInstance
    \/ EndVariation
    \/ FinishVariations

SpecVariation == InitVariation /\ [][NextVariation]_vars

-----------------------------------------------------------------------------
(* getComponentVariants *)

\* the sequences of n distinct elements of S
InjectiveSeqs(S, n) ==
    {q \in [1..n -> S] : \A i, j \in 1..n : q[i] = q[j] => i = j}

\* a component, or a component set with its variants in order and its default
\* variant (0: none)
ComponentNodes ==
    {[type |-> "COMPONENT", id |-> i] : i \in 1..MaxVariants}
      \cup UNION {{[type |-> "COMPONENT_SET", children |-> ch, defaultVariant |-> d] :
                    d \in {0} \cup {ch[k] : k \in DOMAIN ch}} :
                  ch \in UNION {InjectiveSeqs(1..MaxVariants, n) : n \in 0..MaxVariants}}

GetComponentVariantsFirstOnly(component, useVariants) ==
    IF component.type = "COMPONENT" THEN <<component.id>>
    ELSE IF component.children # <<>> THEN <<component.children[1]>> ELSE <<>>

\* lines 517-545
GetComponentVariants(component, useVariants) ==
    IF component.type = "COMPONENT" THEN <<component.id>>
    ELSE IF component.type = "COMPONENT_SET" /\ useVariants THEN component.children
    ELSE IF component.type = "COMPONENT_SET" /\ ~useVariants
         THEN IF component.defaultVariant # 0 THEN <<component.defaultVariant>>
              ELSE IF Len(component.children) > 0 THEN <<component.children[1]>>
              ELSE <<>>
    ELSE <<>>

InitVariants ==
    /\ runPhase = "variants"
    /\ selectionLength = 1
    /\ componentNode \in ComponentNodes
    /\ cfgComponentId = 1
    /\ useComponentVariants \in BOOLEAN
    /\ rawComponentLibrary = <<>>
    /\ notifications = <<>>
    /\ LayoutIdle
    /\ GridIdle
    /\ ExtractIdle
    /\ ImageIdle
    /\ PlanIdle
    /\ CacheIdle
    /\ VariationIdle

\* lines 611-614: the call of getComponentVariants
ExpandCandidates ==
    /\ runPhase = "variants"
    /\ rawComponentLibrary' = GetComponentVariants(componentNode, useComponentVariants)
    /\ runPhase' = "expanded"
    /\ UNCHANGED <<selectionLength, cfgComponentId, componentNode, useComponentVariants,
                   notifications>>
    /\ UNCHANGED NotRun

NextVariants == ExpandCandidates

SpecVariants == InitVariants /\ [][NextVariants]_vars

-----------------------------------------------------------------------------
(* The 'create-mosaic' handler: one run from the message to its end *)

\* getNodeById results: nothing, a node of another type, a component, sets
RunNodes ==
    { NoNode,
      [type |-> "FRAME"],
      [type |-> "COMPONENT", id |-> 1],
      [type |-> "COMPONENT_SET", children |-> <<>>, defaultVariant |-> 0],
      [type |-> "COMPONENT_SET", children |-> <<1, 2>>, defaultVariant |-> 2] }

\* selection width and height, enlargement and tile size: grids of 2x1, 1x1,
\* 0x1 and 1x0 cells
RunSizes == { <<2, 1, 1, 1>>, <<1, 1, 2, 2>>, <<1, 2, 1, 2>>, <<2, 1, 1, 2>> }

\* the runs: every combination of selection, component and grid, each with
\* variationCount 1 (createMosaicVariations is not called)
RunInputs ==
    [selection : {0, 1}, componentId : {0, 1}, node : RunNodes, useVariants : BOOLEAN,
     size : RunSizes, variationCount : {1}]

InitRun ==
    /\ runPhase = "received"
    /\ \E in \in RunInputs :
        /\ selectionLength = in.selection
        /\ cfgComponentId = in.componentId
        /\ componentNode = in.node
        /\ useComponentVariants = in.useVariants
        /\ selWidth = in.size[1]
        /\ selHeight = in.size[2]
        /\ enlargement = in.size[3]
        /\ cfgTileSize = in.size[4]
        /\ cfgVariationCount = in.variationCount
    /\ rawComponentLibrary = <<>>
    /\ notifications = <<>>
    /\ gridWidth = 0
    /\ gridHeight = 0
    /\ gridPc = "config"
    /\ vpc = "idle"
    /\ vi = 0
    /\ variations = <<>>
    /\ positionsToReplace = {}
    /\ planned = <<>>
    /\ replacements = <<>>
    /\ variationThrows = 0
    /\ LayoutIdle
    /\ ExtractIdle
    /\ ImageIdle
    /\ PlanIdle
    /\ CacheIdle

RejectionIgnoringSelection(selection, componentId, node, useVariants) ==
    IF componentId = 0 THEN "Please select a component"
    ELSE IF node.type \notin {"COMPONENT", "COMPONENT_SET"} THEN "Invalid component selected"
    ELSE IF Len(GetComponentVariants(node, useVariants)) = 0
         THEN "No valid components found"
    ELSE ""

\* lines 592-621: the message of the early return taken, "" when none is taken
Rejection(selection, componentId, node, useVariants) ==
    IF selection = 0 THEN "Please select an image"
    ELSE IF componentId = 0 THEN "Please select a component"
    ELSE IF node.type \notin {"COMPONENT", "COMPONENT_SET"} THEN "Invalid component selected"
    ELSE IF Len(GetComponentVariants(node, useVariants)) = 0
         THEN "No valid components found"
    ELSE ""

\* a Signature as the layout part of the model keeps it: each channel to the
\* nearest tenth
InTenths(q) == (10 * q[1] + q[2] \div 2) \div q[2]

CellInTenths(s) ==
    [brightness |-> InTenths(s.brightness), r |-> InTenths(s.r), g |-> InTenths(s.g),
     b |-> InTenths(s.b), transparencyRatio |-> InTenths(s.transparencyRatio)]

\* lines 588-647: the checks, the library, the grid size and the call of
\* getImageData up to its exportAsync
CheckInputs ==
    /\ runPhase = "received"
    /\ LET message == Rejection(selectionLength, cfgComponentId, componentNode,
                                useComponentVariants)
       IN  IF message # ""
           THEN /\ notifications' = Append(notifications, message)
                /\ runPhase' = "rejected"
                /\ UNCHANGED <<rawComponentLibrary, gridVars, imageVars>>
           ELSE /\ rawComponentLibrary' =
                        GetComponentVariants(componentNode, useComponentVariants)
                /\ gridWidth' = GridCount(selWidth, enlargement, cfgTileSize)
                /\ gridHeight' = GridCount(selHeight, enlargement, cfgTileSize)
                /\ gridPc' = "sized"
                /\ run' = 1
                /\ runGrid' = [width |-> gridWidth', height |-> gridHeight']
                /\ ipc' = "exporting"
                /\ imgRegion' = <<Pixel(255, 255, 255, 255)>>
                /\ imgWhite' = FALSE
                /\ runPhase' = "sampling"
                /\ UNCHANGED <<notifications, selWidth, selHeight, enlargement, cfgTileSize,
                               handlerOn, timers, uiWork, inbox, imgResult, resolvedBy,
                               firstRun>>
    /\ UNCHANGED <<selectionLength, cfgComponentId, componentNode, useComponentVariants>>
    /\ UNCHANGED <<layoutVars, extractVars, planVars, cacheVars, variationVars>>

\* lines 648-650: getImageData has resolved, getComponentData is called
CallGetComponentData ==
    /\ runPhase = "sampling"
    /\ ipc = "resolved"
    /\ runPhase' = "extracting"
    /\ components' = rawComponentLibrary
    /\ compPixels' = [id \in 1..MaxCandidates |-> CandidatePixels(id)]
    /\ cacheWhite' = FALSE
    /\ cachePc' = "called"
    /\ compPc' = [i \in DOMAIN rawComponentLibrary |-> "start"]
    /\ resolvedData' = [i \in DOMAIN rawComponentLibrary |-> NoData]
    /\ compFate' = [i \in DOMAIN rawComponentLibrary |-> "none"]
    /\ UNCHANGED <<pendingResults, compTimers, uiCompWork, compInbox, cacheResults>>
    /\ UNCHANGED runVarsButPhase
    /\ UNCHANGED <<layoutVars, gridVars, extractVars, imageVars, planVars, variationVars>>

\* lines 652-660: getComponentData has returned, createMosaic is called
CallCreateMosaic ==
    /\ runPhase = "extracting"
    /\ cachePc = "returned"
    /\ runPhase' = "layout"
    /\ pc' = "start"
    /\ width' = selWidth * enlargement
    /\ height' = selHeight * enlargement
    /\ tileSize' = cfgTileSize
    /\ imageData' = [j \in DOMAIN imgResult |->
                        [i \in DOMAIN imgResult[j] |-> CellInTenths(imgResult[j][i])]]
    /\ componentLibrary' =
            [i \in DOMAIN cacheResults |->
                [id |-> cacheResults[i].component]
                    @@ CellInTenths(cacheResults[i].data)]
    /\ UNCHANGED <<xTileCount, yTileCount, x, y, batchStartX, frameOnCanvas, children,
                   componentUsage, completedTiles, thrown, lastMatch, choices>>
    /\ UNCHANGED runVarsButPhase
    /\ UNCHANGED <<gridVars, extractVars, imageVars, planVars, cacheVars, variationVars>>

\* createMosaic returns (lines 383-386, 402-407 or 495-498) and the handler ends
FinishRun ==
    /\ runPhase = "layout"
    /\ pc = "aborted" \/ vpc = "finished"
    /\ runPhase' = IF pc = "aborted" THEN "aborted" ELSE "done"
    /\ notifications' = Append(notifications,
                            IF pc = "aborted" THEN "Unable to create mosaic"
                            ELSE "Mosaic created")
    /\ UNCHANGED <<selectionLength, cfgComponentId, componentNode, useComponentVariants,
                   rawComponentLibrary>>
    /\ UNCHANGED NotRun

NextRun ==
    \/ CheckInputs
    \/ ExportFails
    \/ ExportSucceeds
    \/ UIProcessImage
    \/ ReceiveImageResult
    \/ ImageTimeout
    \/ CallGetComponentData
    \/ StartComponentData
    \/ ComponentExportFails
    \/ ComponentExportSucceeds
    \/ UIProcessComponent
    \/ ReceiveComponentResult
    \/ ComponentTimeout
    \/ ReturnComponentData
    \/ CallCreateMosaic
    \/ CreateFrame
    \/ ProcessTile
    \/ YieldBatch
    \/ StartVariations
    \/ FinishRun

SpecRun == InitRun /\ [][NextRun]_vars

\* a run on a 10x1 grid with one component, with and without a variation:
\* ten tiles are the fewest of which createMosaicVariations visits one
InitRunWithVariations ==
    /\ runPhase = "received"
    /\ selectionLength = 1
    /\ cfgComponentId = 1
    /\ componentNode = [type |-> "COMPONENT", id |-> 1]
    /\ useComponentVariants = FALSE
    /\ selWidth = 10
    /\ selHeight = 1
    /\ enlargement = 1
    /\ cfgTileSize = 1
    /\ cfgVariationCount \in {1, 2}
    /\ rawComponentLibrary = <<>>
    /\ notifications = <<>>
    /\ gridWidth = 0
    /\ gridHeight = 0
    /\ gridPc = "config"
    /\ vpc = "idle"
    /\ vi = 0
    /\ variations = <<>>
    /\ positionsToReplace = {}
    /\ planned = <<>>
    /\ replacements = <<>>
    /\ variationThrows = 0
    /\ LayoutIdle
    /\ ExtractIdle
    /\ ImageIdle
    /\ PlanIdle
    /\ CacheIdle

NextRunWithVariations ==
    \/ NextRun
    \/ BeginVariation
    \/ ReplaceInstance
    \/ EndVariation
    \/ FinishVariations

\* the whole run, createMosaicVariations included
SpecRunWithVariations == InitRunWithVariations /\ [][NextRunWithVariations]_vars

\* the steps the plugin's event loop takes on its own: exports settle, armed
\* timers fire, delivered messages are handled, continuations run. The UI's
\* answers are not among them: the UI may stay silent.
RunProgress ==
    \/ CheckInputs
    \/ ExportFails
    \/ ExportSucceeds
    \/ ReceiveImageResult
    \/ ImageTimeout
    \/ CallGetComponentData
    \/ StartComponentData
    \/ ComponentExportFails
    \/ ComponentExportSucceeds
    \/ ReceiveComponentResult
    \/ ComponentTimeout
    \/ ReturnComponentData
    \/ CallCreateMosaic
    \/ CreateFrame
    \/ ProcessTile
    \/ YieldBatch
    \/ StartVariations
    \/ FinishRun

\* the event loop does not stop while one of these steps is possible
RunFairness == WF_vars(RunProgress)

SpecRunFair == SpecRun /\ RunFairness

-----------------------------------------------------------------------------
(* Properties of the primary pass and of the matcher *)

Matched == lastMatch # NoMatch

\* the footprint ch covers grid cell (i, j)
Covers(ch, i, j) ==
    /\ ch.x <= i * tileSize /\ (i + 1) * tileSize <= ch.x + ch.width
    /\ ch.y <= j * tileSize /\ (j + 1) * tileSize <= ch.y + ch.height

Covering(i, j) == {k \in 1..Len(children) : Covers(children[k], i, j)}

PlacementThrew(i, j) ==
    \E k \in 1..Len(choices) :
        choices[k].x = i /\ choices[k].y = j /\ ~choices[k].placed

\* C1 as stated: when the primary pass has finished, every cell of the grid is
\* covered by exactly one emitted footprint.
C1_ExactPartition ==
    pc = "done" =>
        \A i \in 0..(xTileCount - 1), j \in 0..(yTileCount - 1) :
            Cardinality(Covering(i, j)) = 1

\* C1 amended: when the primary pass has finished, no cell is covered twice, and
\* a cell is covered (by exactly one footprint) exactly when the placement at its
\* origin did not throw; with no throwing placement the footprints partition the grid.
C1_PartitionUpToThrows ==
    pc = "done" =>
        \A i \in 0..(xTileCount - 1), j \in 0..(yTileCount - 1) :
            Cardinality(Covering(i, j)) = IF PlacementThrew(i, j) THEN 0 ELSE 1

C1_Witness ==
    /\ pc = "done"
    /\ xTileCount >= 3 /\ yTileCount >= 2
    /\ thrown = 1
    /\ Len(children) = xTileCount * yTileCount - 1

\* the penalized score the matcher is specified to minimise:
\* 0.6*|brightness difference| + 0.4*(RGB distance / sqrt 3) + min(usage*0.01, 0.1)
SpecScore(cell, tile, usage) ==
    [lin |-> 6 * Abs(cell.brightness - tile.brightness)
             + (IF UsageCount(usage, tile.id) < 10 THEN UsageCount(usage, tile.id) ELSE 10),
     sq  |-> (cell.r - tile.r) * (cell.r - tile.r) + (cell.g - tile.g) * (cell.g - tile.g)
             + (cell.b - tile.b) * (cell.b - tile.b)]

SpecBase(cell, tile) == SpecScore(cell, tile, <<>>)

LastScore(k) == SpecScore(lastMatch.cell, componentLibrary[k], lastMatch.usage)
LastBase(k) == SpecBase(lastMatch.cell, componentLibrary[k])
LastUsage(k) == UsageCount(lastMatch.usage, componentLibrary[k].id)
SameScore(s1, s2) == ~ScoreLess(s1, s2) /\ ~ScoreLess(s2, s1)

\* C3: the matcher returns a tile of minimal penalized score over the whole
\* library, and among the tiles of minimal score the first one in library order.
C3_MinimalScoreFirstWins ==
    Matched =>
        \A k \in 1..Len(componentLibrary) :
            /\ ~ScoreLess(LastScore(k), LastScore(lastMatch.index))
            /\ k < lastMatch.index => ScoreLess(LastScore(lastMatch.index), LastScore(k))

C3_Witness ==
    /\ Matched
    /\ lastMatch.index = 1
    /\ LastUsage(1) >= 1
    /\ \E k \in 2..Len(componentLibrary) : SameScore(LastScore(k), LastScore(1))

\* C4 as stated: of two tiles with identical base score the matcher never returns
\* the one with the higher usage count, whatever the counts and the library order.
C4_LowerUsageAlwaysPreferred ==
    Matched =>
        \A k \in 1..Len(componentLibrary) :
            SameScore(LastBase(k), LastBase(lastMatch.index))
                => LastUsage(k) >= LastUsage(lastMatch.index)

\* C4 amended: of two tiles with identical base score the matcher returns the one
\* with the higher usage count only when the lower count has reached 10 (both
\* penalties are at the cap 0.1), and then the returned tile is the earlier one
\* in library order.
C4_LowerUsagePreferredBelowCap ==
    Matched =>
        \A k \in 1..Len(componentLibrary) :
            (/\ SameScore(LastBase(k), LastBase(lastMatch.index))
             /\ LastUsage(k) < LastUsage(lastMatch.index))
                => LastUsage(k) >= 10 /\ lastMatch.index < k

C4_Witness ==
    /\ Matched
    /\ lastMatch.index = 2
    /\ SameScore(LastBase(1), LastBase(2))
    /\ LastUsage(2) < LastUsage(1)
    /\ LastUsage(1) < 10

\* C5: a tile whose base score is better by more than 0.1 than a competitor's
\* is never passed over for that competitor, whatever the usage counts.
C5_CappedPenaltyKeepsAdvantage ==
    Matched =>
        \A k \in 1..Len(componentLibrary) :
            ~ScoreLess([lin |-> LastBase(k).lin + 10, sq |-> LastBase(k).sq],
                       LastBase(lastMatch.index))

C5_Witness ==
    /\ Matched
    /\ LastUsage(lastMatch.index) >= 20
    /\ \E j \in 1..Len(componentLibrary) :
        /\ LastUsage(j) = 0
        /\ ScoreLess([lin |-> LastBase(lastMatch.index).lin + 10,
                      sq |-> LastBase(lastMatch.index).sq], LastBase(j))

C6_Scenario ==
    /\ pc # "start"
    /\ xTileCount = 4 /\ yTileCount = 4
    /\ \A j \in 1..4 : \A i \in 1..4 :
        imageData[j][i].brightness = 5 /\ imageData[j][i] = imageData[1][1]
    /\ Len(componentLibrary) = 2
    /\ componentLibrary[1].id = "A" /\ componentLibrary[1].brightness = 1
    /\ componentLibrary[2].id = "B" /\ componentLibrary[2].brightness = 9
    /\ componentLibrary[1].r = componentLibrary[2].r
    /\ componentLibrary[1].g = componentLibrary[2].g
    /\ componentLibrary[1].b = componentLibrary[2].b

\* C6: on the 4x4 mid-grey grid with library [A (0.1), B (0.9)] the first cell
\* in traversal order gets tile A, the next placement after an A is a B, and at
\* the end of the pass the counts of A and B differ by at most 1 (8 and 8 when
\* every placement succeeds).
C6_EndToEndAlternation ==
    C6_Scenario =>
        /\ Len(choices) >= 1 =>
            choices[1].x = 0 /\ choices[1].y = 0 /\ choices[1].tile = "A"
        /\ Len(children) >= 1 => children[1].mainComponent = "A"
        /\ Len(children) >= 2 => children[2].mainComponent = "B"
        /\ pc = "done" =>
            /\ Abs(UsageCount(componentUsage, "A") - UsageCount(componentUsage, "B")) <= 1
            /\ thrown = 0 =>
                UsageCount(componentUsage, "A") = 8 /\ UsageCount(componentUsage, "B") = 8

C6_Witness ==
    /\ C6_Scenario
    /\ pc = "done"
    /\ thrown = 0
    /\ Len(children) = 16

-----------------------------------------------------------------------------
(* Properties of the grid size and of the signatures *)

\* C7: the row count is round(columns * imageHeight / imageWidth), with
\* Math.round(p / q) = floor((2p + q) / 2q).
C7_RowsRoundedFromColumns ==
    gridPc = "sized" =>
        gridHeight = (2 * gridWidth * selHeight + selWidth) \div (2 * selWidth)

InUnit(q) == q[2] > 0 /\ 0 <= q[1] /\ q[1] <= q[2]
IsZero(q) == q[2] > 0 /\ q[1] = 0
IsOne(q) == q[2] > 0 /\ q[1] = q[2]

\* C8: every Signature that can enter the layout (extracted from pixels with
\* either transparency flag, gradient fallback, neutral default) has brightness,
\* r, g, b and transparencyRatio within [0,1].
C8_SignatureInUnitRange ==
    sig # NoSig =>
        /\ InUnit(sig.brightness)
        /\ InUnit(sig.r) /\ InUnit(sig.g) /\ InUnit(sig.b)
        /\ InUnit(sig.transparencyRatio)

C8_Witness ==
    /\ sig # NoSig
    /\ source = "component"
    /\ transparencyIsWhite
    /\ \E i \in 1..Len(pixels) : IsTransparent(pixels[i])
    /\ \E i \in 1..Len(pixels) : ~IsTransparent(pixels[i])
    /\ IsOne(sig.r)

FullyTransparent == \A i \in 1..Len(pixels) : IsTransparent(pixels[i])

\* C9: a region whose pixels all have alpha < 0.1 yields brightness 0 and colour
\* (0,0,0) with the transparency-as-white flag off, and brightness 1 and colour
\* (1,1,1) with the flag on.
C9_FullyTransparentRegion ==
    (sig # NoSig /\ source \in {"image-cell", "component"} /\ FullyTransparent) =>
        IF transparencyIsWhite
        THEN IsOne(sig.brightness) /\ IsOne(sig.r) /\ IsOne(sig.g) /\ IsOne(sig.b)
        ELSE IsZero(sig.brightness) /\ IsZero(sig.r) /\ IsZero(sig.g) /\ IsZero(sig.b)

C9_Witness ==
    /\ sig # NoSig
    /\ source = "image-cell"
    /\ FullyTransparent
    /\ Len(pixels) = 5
    /\ pixels[1].a = 25
    /\ ~transparencyIsWhite

\* fractions p and q are the same number
SameFraction(p, q) == p[1] * q[2] = q[1] * p[2]

\* the synthetic gradient: brightness 0.3 + 0.4*x/W + 0.3*y/H,
\* colour (0.3 + 0.7*x/W, 0.3 + 0.7*y/H, 0.5), transparencyRatio 0
IsGradientCell(c, cx, cy, w, h) ==
    /\ SameFraction(c.brightness, <<30 * w * h + 40 * cx * h + 30 * cy * w, 100 * w * h>>)
    /\ SameFraction(c.r, <<30 * w + 70 * cx, 100 * w>>)
    /\ SameFraction(c.g, <<30 * h + 70 * cy, 100 * h>>)
    /\ SameFraction(c.b, <<1, 2>>)
    /\ c.transparencyRatio[1] = 0

IsGradientGrid(g, size) ==
    /\ Len(g) = size.height
    /\ \A j \in 1..size.height :
        /\ Len(g[j]) = size.width
        /\ \A i \in 1..size.width : IsGradientCell(g[j][i], i - 1, j - 1, size.width, size.height)

ByFallback(by) == by \in {"export-failure", "timeout"}

\* C10: when the export fails or no result arrives within the 10 s wait, the
\* Signature grid is the synthetic gradient in every cell, and two runs that
\* fall back with the same grid size get identical grids.
C10_FallbackIsGradient ==
    (ipc = "resolved" /\ ByFallback(resolvedBy)) =>
        /\ IsGradientGrid(imgResult, runGrid)
        /\ (ByFallback(firstRun.by) /\ firstRun.grid = runGrid) => imgResult = firstRun.result

C10_Witness ==
    /\ ipc = "resolved"
    /\ resolvedBy = "timeout"
    /\ firstRun.by = "export-failure"
    /\ firstRun.grid = runGrid
    /\ runGrid.width = 3 /\ runGrid.height = 2

\* C2: at every origin and in every occupancy state of the pass, the size the
\* Planner returns is 1, 2 or 4, is at most the configured maximum (uniform 1,
\* variable 2, highly variable 4), and every cell of its footprint is inside
\* the grid and was unoccupied when the Planner was called.
C2_PlannerSizeAndFootprint ==
    lastPlan # NoPlan =>
        /\ lastPlan.size \in {1, 2, 4}
        /\ tileSizeVariation = "1x" => lastPlan.size = 1
        /\ tileSizeVariation = "2x" => lastPlan.size <= 2
        /\ \A dx \in 0..(lastPlan.size - 1), dy \in 0..(lastPlan.size - 1) :
            /\ lastPlan.x + dx < planWidth
            /\ lastPlan.y + dy < planHeight
            /\ <<lastPlan.x + dx, lastPlan.y + dy>> \notin lastPlan.before

\* a 4x4 footprint accepted next to an occupied cell, in the highly variable mode
C2_Witness ==
    /\ lastPlan # NoPlan
    /\ tileSizeVariation = "4x"
    /\ lastPlan.size = 4
    /\ lastPlan.x = 1
    /\ <<0, 0>> \in lastPlan.before

\* C11: when the UI cannot decode the exported image, the Signature grid the
\* layout receives is the synthetic gradient, as for an export failure.
C11_DecodeFailureIsGradient ==
    (ipc = "resolved" /\ resolvedBy = "decode-failure") =>
        IsGradientGrid(imgResult, runGrid)

\* C12: whatever succeeds, fails or times out, getComponentData returns one
\* entry per input candidate, in the input order, each paired with its own
\* candidate.
C12_OneEntryPerCandidateInOrder ==
    cachePc = "returned" =>
        /\ Len(cacheResults) = Len(components)
        /\ \A i \in 1..Len(components) : cacheResults[i].component = components[i]

C12_Witness ==
    /\ cachePc = "returned"
    /\ Len(components) = 3
    /\ components[1] = 3
    /\ compFate[1] = "timeout"
    /\ compFate[2] = "export-failure"
    /\ compFate[3] = "decode-failure"

IsNeutral(s) ==
    /\ s.brightness[1] * 2 = s.brightness[2]
    /\ s.r[1] * 2 = s.r[2] /\ s.g[1] * 2 = s.g[2] /\ s.b[1] * 2 = s.b[2]
    /\ s.transparencyRatio[1] = 0

\* C13: a candidate whose rasterization fails or whose result misses its 5 s
\* wait gets exactly the neutral Signature, and every other candidate keeps
\* the Signature extracted from its own pixels.
C13_NeutralOnFailureOnly ==
    cachePc = "returned" =>
        \A i \in 1..Len(components) :
            /\ compFate[i] \in {"export-failure", "decode-failure", "timeout"}
                   => IsNeutral(cacheResults[i].data)
            /\ compFate[i] = "result"
                   => cacheResults[i].data
                        = ComponentSignature(CandidatePixels(components[i]), cacheWhite)

C13_Witness ==
    /\ cachePc = "returned"
    /\ Len(components) = 3
    /\ compFate[1] = "result"
    /\ compFate[2] = "timeout"
    /\ compFate[3] = "result"
    /\ compInbox # {}

RoundedShare(percentage, total) == (2 * percentage * total + 100) \div 200

\* C15: in every variation the number of footprints that differ from the
\* primary layout is round(p * totalFootprints) for some p in [5%, 10%], and no
\* footprint is replaced twice within one variation.
C15_ReplacedShareRounded ==
    vpc = "finished" =>
        \A v \in 1..Len(variations) :
            /\ RoundedShare(5, xTileCount * yTileCount) <= Len(replacements[v])
            /\ Len(replacements[v]) <= RoundedShare(10, xTileCount * yTileCount)
            /\ \A a, b \in 1..Len(replacements[v]) :
                (replacements[v][a].x = replacements[v][b].x
                    /\ replacements[v][a].y = replacements[v][b].y) => a = b

\* C18: candidate expansion. A single component gives exactly that component;
\* a family with useAllVariants gives every variant in family order; a family
\* without it gives one representative, the default variant when there is one,
\* else the first member.
C18_CandidateExpansion ==
    runPhase = "expanded" =>
        /\ componentNode.type = "COMPONENT" => rawComponentLibrary = <<componentNode.id>>
        /\ (componentNode.type = "COMPONENT_SET" /\ useComponentVariants) =>
                rawComponentLibrary = componentNode.children
        /\ (componentNode.type = "COMPONENT_SET" /\ ~useComponentVariants
                /\ componentNode.children # <<>>) =>
                /\ Len(rawComponentLibrary) = 1
                /\ rawComponentLibrary[1] =
                        IF componentNode.defaultVariant # 0
                        THEN componentNode.defaultVariant
                        ELSE Head(componentNode.children)

C18_Witness ==
    /\ runPhase = "expanded"
    /\ componentNode.type = "COMPONENT_SET"
    /\ ~useComponentVariants
    /\ Len(componentNode.children) = 3
    /\ componentNode.defaultVariant = componentNode.children[2]
    /\ rawComponentLibrary = <<componentNode.defaultVariant>>

\* the input errors: empty selection, no component chosen, invalid or missing
\* candidate, empty library, a grid of zero columns or zero rows
InputError ==
    \/ selectionLength = 0
    \/ cfgComponentId = 0
    \/ componentNode.type \notin {"COMPONENT", "COMPONENT_SET"}
    \/ componentNode.type = "COMPONENT_SET"
        /\ (useComponentVariants \/ componentNode.defaultVariant = 0)
        /\ componentNode.children = <<>>
    \/ selWidth * enlargement < cfgTileSize
    \/ selHeight * enlargement < cfgTileSize

RunEnded == runPhase \in {"rejected", "aborted", "done"}

PassedPreconditions ==
    /\ runPhase \in {"sampling", "extracting", "layout"}
    /\ gridWidth >= 1
    /\ gridHeight >= 1

\* C17: a run that has passed its input preconditions always eventually
\* reaches Done, whatever image and tile requests succeed, fail or time out,
\* and never an error terminal state.
C17_RunEventuallyDone ==
    /\ [](PassedPreconditions => (pc # "aborted" /\ runPhase \notin {"rejected", "aborted"}))
    /\ PassedPreconditions ~> (runPhase = "done")

C17_Witness ==
    /\ runPhase = "done"
    /\ resolvedBy = "timeout"
    /\ Len(components) = 2
    /\ compFate[1] = "timeout"
    /\ compFate[2] = "export-failure"

\* C19: the Planner returns size 4 only where the 2x2 block at the same origin
\* is accepted (inside the grid, unoccupied, homogeneous); where the 4x4 block
\* is free and homogeneous but the 2x2 block is rejected, it returns size 1.
C19_FourOnlyAfterTwo ==
    lastPlan # NoPlan =>
        LET two  == BlockCells(lastPlan.x, lastPlan.y, 2)
            four == BlockCells(lastPlan.x, lastPlan.y, 4)
            twoAccepted ==
                /\ \A c \in two : InGrid(c, planWidth, planHeight) /\ c \notin lastPlan.before
                /\ Homogeneous(planGrid, two)
        IN  /\ lastPlan.size = 4 => twoAccepted
            /\ ~twoAccepted => lastPlan.size = 1

\* sizes up to 4 allowed, the 4x4 block at the origin free and homogeneous,
\* its 2x2 block not homogeneous, and the Planner has returned size 1
C19_Witness ==
    /\ lastPlan # NoPlan
    /\ tileSizeVariation = "4x"
    /\ BlockFree(lastPlan.x, lastPlan.y, 4, planWidth, planHeight, lastPlan.before)
    /\ Homogeneous(planGrid, BlockCells(lastPlan.x, lastPlan.y, 4))
    /\ ~Homogeneous(planGrid, BlockCells(lastPlan.x, lastPlan.y, 2))
    /\ lastPlan.size = 1

SetMax(S) == CHOOSE m \in S : \A k \in S : k <= m

\* n times the largest distance of a cell's brightness from the block mean
MaxBrightnessDevTimes(grid, cells, n) ==
    SetMax({Abs(n * SignatureAt(grid, c).brightness - ChannelSum(grid, cells, "brightness")) :
            c \in cells})

\* n * n times the largest squared RGB distance of a cell from the block mean
MaxColorDevSquaredTimes(grid, cells, n) ==
    LET d(c, ch) == n * SignatureAt(grid, c)[ch] - ChannelSum(grid, cells, ch)
    IN  SetMax({d(c, "r") * d(c, "r") + d(c, "g") * d(c, "g") + d(c, "b") * d(c, "b") :
                c \in cells})

\* brightness within 0.1 and colour within 0.15 of the block means (one unit
\* is a tenth, so 0.15 squared is 9/4)
WithinLimits(grid, cells) ==
    LET n == Cardinality(cells)
    IN  /\ MaxBrightnessDevTimes(grid, cells, n) < n
        /\ 4 * MaxColorDevSquaredTimes(grid, cells, n) < 9 * n * n

\* size S may be returned at the last origin: allowed by the mode, inside the
\* grid, unoccupied and within the limits
Qualifies(S) ==
    /\ S <= MaxSizeOf(tileSizeVariation)
    /\ BlockFree(lastPlan.x, lastPlan.y, S, planWidth, planHeight, lastPlan.before)
    /\ WithinLimits(planGrid, BlockCells(lastPlan.x, lastPlan.y, S))

C20_StatePart ==
    lastPlan # NoPlan =>
        LET own == SignatureAt(planGrid, <<lastPlan.x, lastPlan.y>>)
        IN  /\ lastPlan.size \in {2, 4} =>
                    WithinLimits(planGrid, BlockCells(lastPlan.x, lastPlan.y, lastPlan.size))
            /\ (~Qualifies(2) /\ ~Qualifies(4)) =>
                    /\ lastPlan.size = 1
                    /\ lastPlan.plan.aggregateBrightness = <<own.brightness, 1>>
                    /\ lastPlan.plan.aggregateColor =
                            [r |-> <<own.r, 1>>, g |-> <<own.g, 1>>, b |-> <<own.b, 1>>]

\* a call of the Planner sees the occupancy as it was, leaves the Signature
\* grid alone, and the only cells marked afterwards are the footprint
C20_StepPart ==
    /\ planGrid' = planGrid
    /\ lastPlan' # lastPlan =>
            /\ lastPlan'.before = occupied
            /\ occupied' = occupied \cup BlockCells(lastPlan'.x, lastPlan'.y, lastPlan'.size)

\* C20: a size of 2 or 4 is returned only for a block whose largest brightness
\* deviation from the block mean is below 0.1 and whose largest RGB distance
\* from the block mean colour is below 0.15; when neither 2 nor 4 qualifies the
\* result is size 1 with the origin cell's own brightness and colour; the
\* Signature grid never changes and the occupancy only gains the footprint.
C20_LimitsFallbackAndPurity ==
    /\ []C20_StatePart
    /\ [][C20_StepPart]_vars

\* the first origin fell back to size 1 because its 2x2 block is exactly at
\* the colour limit, and the next origin got a 2x2 block of unequal cells
C20_Witness ==
    /\ lastPlan # NoPlan
    /\ planWidth >= 3
    /\ planHeight >= 2
    /\ Len(footprints) = 2
    /\ footprints[1].size = 1
    /\ ~WithinLimits(planGrid, BlockCells(0, 0, 2))
    /\ lastPlan.size = 2
    /\ MaxColorDevSquaredTimes(planGrid, BlockCells(lastPlan.x, lastPlan.y, 2), 4) > 0
    /\ lastPlan.plan.aggregateColor.r = <<24, 4>>

-----------------------------------------------------------------------------
(* Properties of the order of the primary pass and of its Usage Counter *)

\* (x1, y1) comes before (x2, y2) in row-major order
RowMajorBefore(x1, y1, x2, y2) == y1 < y2 \/ (y1 = y2 /\ x1 < x2)

\* the placements already emitted that put tile id, among those at origins
\* before (ox, oy) in traversal order
PrecedingPlacements(ox, oy, id) ==
    {k \in 1..Len(children) :
        /\ children[k].mainComponent = id
        /\ RowMajorBefore(children[k].x, children[k].y, ox * tileSize, oy * tileSize)}

\* C21: placements are emitted in row-major order of their origins, origins
\* are visited in that order, and the matcher at each origin reads, for every
\* tile, the number of placements of that tile emitted at the origins before it.
C21_RowMajorAndUsageInOrder ==
    /\ \A k, l \in 1..Len(children) :
            k < l => RowMajorBefore(children[k].x, children[k].y, children[l].x, children[l].y)
    /\ \A k, l \in 1..Len(choices) :
            k < l => RowMajorBefore(choices[k].x, choices[k].y, choices[l].x, choices[l].y)
    /\ Matched =>
            \A i \in 1..Len(componentLibrary) :
                UsageCount(lastMatch.usage, componentLibrary[i].id)
                    = Cardinality(PrecedingPlacements(lastMatch.x, lastMatch.y,
                                                      componentLibrary[i].id))

\* the matcher runs in the second row, after a first row in which two tiles
\* were placed and one placement threw
C21_Witness ==
    /\ Matched
    /\ lastMatch.y = 1
    /\ lastMatch.x >= 1
    /\ thrown = 1
    /\ \E k \in 1..Len(choices) : choices[k].y = 0 /\ ~choices[k].placed
    /\ Cardinality({id \in DOMAIN lastMatch.usage : lastMatch.usage[id] >= 1}) >= 2

\* the sum of the counts of a Usage Counter
RECURSIVE UsageTotal(_)
UsageTotal(usage) ==
    IF DOMAIN usage = {} THEN 0
    ELSE LET id == CHOOSE k \in DOMAIN usage : TRUE
         IN  usage[id] + UsageTotal([k \in DOMAIN usage \ {id} |-> usage[k]])

C22_StatePart ==
    /\ pc = "start" => componentUsage = <<>>
    /\ Len(choices) = 1 => lastMatch.usage = <<>>
    /\ UsageTotal(componentUsage) = Len(children)

C22_StepPart ==
    \A id \in TileIds : UsageCount(componentUsage', id) >= UsageCount(componentUsage, id)

\* C22: within a pass no tile's usage count ever decreases, the pass starts
\* from an empty Usage Counter (the first matcher run reads no count), and at
\* every point the counts add up to the number of placements emitted so far.
C22_UsageCounterMonotoneAndExact ==
    /\ []C22_StatePart
    /\ [][C22_StepPart]_vars

\* two tiles have been used, one of them several times, and one placement threw
C22_Witness ==
    /\ pc = "done"
    /\ thrown = 1
    /\ Cardinality(DOMAIN componentUsage) >= 2
    /\ \E id \in DOMAIN componentUsage : componentUsage[id] >= 3
    /\ UsageTotal(componentUsage) = xTileCount * yTileCount - 1

\* the placements of the origins processed so far whose placement did not throw
RECURSIVE PlacedOf(_)
PlacedOf(chs) ==
    IF chs = <<>> THEN <<>>
    ELSE LET c == chs[Len(chs)]
             before == PlacedOf(SubSeq(chs, 1, Len(chs) - 1))
         IN  IF c.placed
             THEN Append(before, [x |-> c.x * tileSize, y |-> c.y * tileSize,
                                  width |-> tileSize, height |-> tileSize,
                                  mainComponent |-> c.tile])
             ELSE before

C23_StatePart ==
    /\ pc # "aborted" \/ thrown = 0
    /\ children = PlacedOf(choices)
    /\ completedTiles = Len(children)
    /\ pc = "done" => Len(choices) = xTileCount * yTileCount

\* a step in which a placement throws
C23_StepPart ==
    thrown' # thrown =>
        /\ children' = children
        /\ componentUsage' = componentUsage
        /\ completedTiles' = completedTiles
        /\ frameOnCanvas'
        /\ pc' \in {"tiles", "yield"}

\* C23: a placement that throws does not end the pass; it adds no placement
\* and no usage or completed-tile count, the placements emitted before it stay
\* as they were, and every origin of the grid is still processed.
C23_ThrowIsLocal ==
    /\ []C23_StatePart
    /\ [][C23_StepPart]_vars

\* the pass has finished although the placement at an origin in the middle of
\* the traversal threw; the origins before and after it were placed
C23_Witness ==
    /\ pc = "done"
    /\ thrown = 1
    /\ \E k \in 2..(Len(choices) - 1) :
        ~choices[k].placed /\ choices[k - 1].placed /\ choices[k + 1].placed
    /\ Len(children) = Len(choices) - 1

\* C24: when an exception escapes the per-tile handling, the run has ended
\* with no layout container left on the canvas.
C24_FatalErrorRemovesContainer ==
    pc = "failed" => ~frameOnCanvas

-----------------------------------------------------------------------------
(* Properties of the variations *)

\* the tile of a frame at grid position (i, j), "" where the frame has none
TileAt(frame, i, j) ==
    IF \E k \in 1..Len(frame) : frame[k].x = i * tileSize /\ frame[k].y = j * tileSize
    THEN frame[CHOOSE k \in 1..Len(frame) :
                   frame[k].x = i * tileSize /\ frame[k].y = j * tileSize].mainComponent
    ELSE ""

LibraryTile(id) == componentLibrary[CHOOSE i \in 1..Len(componentLibrary) :
                                        componentLibrary[i].id = id]

\* the Signature of the image at grid position (i, j)
TargetAt(i, j) ==
    imageData[MapIndex(j, Len(imageData), yTileCount) + 1]
             [MapIndex(i, Len(imageData[1]), xTileCount) + 1]

\* the tiles other than old whose base score at (i, j) is better than that of new
BetterAlternatives(i, j, old, new) ==
    {k \in 1..Len(componentLibrary) :
        /\ componentLibrary[k].id # old
        /\ ScoreLess(SpecBase(TargetAt(i, j), componentLibrary[k]),
                     SpecBase(TargetAt(i, j), LibraryTile(new)))}

\* C25: every replacement puts a tile of the library other than the tile the
\* primary layout has at that footprint, with at most two other tiles of
\* better base score; the variation then shows that tile there; and with a
\* library of one tile nothing is replaced and every footprint keeps its tile.
C25_ReplacementAmongTopThreeOthers ==
    /\ \A v \in 1..Len(replacements) : \A n \in 1..Len(replacements[v]) :
            LET r == replacements[v][n]
            IN  /\ r.old = TileAt(children, r.x, r.y)
                /\ r.new # r.old
                /\ \E k \in 1..Len(componentLibrary) : componentLibrary[k].id = r.new
                /\ Cardinality(BetterAlternatives(r.x, r.y, r.old, r.new)) <= 2
                /\ TileAt(variations[v], r.x, r.y) = r.new
    /\ Len(componentLibrary) = 1 =>
            \A v \in 1..Len(variations) :
                /\ replacements[v] = <<>>
                /\ \A k \in 1..Len(children) :
                        TileAt(variations[v], children[k].x \div tileSize,
                               children[k].y \div tileSize) = children[k].mainComponent

\* with four tiles, a footprint got the last of the three other tiles, which
\* is not the best of them
C25_Witness ==
    /\ vpc = "finished"
    /\ Len(componentLibrary) = 4
    /\ \E v \in 1..Len(replacements) : \E n \in 1..Len(replacements[v]) :
        LET r == replacements[v][n]
        IN  /\ r.rank = 3
            /\ Cardinality(BetterAlternatives(r.x, r.y, r.old, r.new)) >= 1
            /\ TileAt(variations[v], r.x, r.y) = r.new

SameFootprint(a, b) ==
    a.x = b.x /\ a.y = b.y /\ a.width = b.width /\ a.height = b.height

C26_StatePart ==
    \A v \in 1..Len(variations) :
        /\ Len(variations[v]) = Len(children)
        /\ \A k \in 1..Len(children) :
                \E l \in 1..Len(variations[v]) : SameFootprint(variations[v][l], children[k])

C26_StepPart ==
    /\ vpc # "idle" => children' = children
    /\ Len(variations') >= Len(variations)
    /\ \A v \in 1..Len(variations) :
            variations'[v] # variations[v] => (v = Len(variations) /\ vpc = "replacing")

-----------------------------------------------------------------------------
(* Properties of the phases of a run *)

\* Idle 0, Sampling 1, ExtractingTileSignatures 2, Laying Out 3,
\* GeneratingVariations 4, Done 5 (createMosaic has nothing left to do, or
\* the handler has ended), an error end 9
PhaseOf(handler, variation) ==
    CASE handler = "received" -> 0
      [] handler = "sampling" -> 1
      [] handler = "extracting" -> 2
      [] handler = "layout" /\ variation = "idle" -> 3
      [] handler = "layout" /\ variation \in {"loop", "replacing"} -> 4
      [] handler = "layout" /\ variation = "finished" -> 5
      [] handler = "done" -> 5
      [] OTHER -> 9

C27_StatePart ==
    /\ runPhase = "sampling" => (cachePc = "idle" /\ pc = "idle")
    /\ runPhase = "extracting" => (ipc = "resolved" /\ pc = "idle")
    /\ (pc # "idle" \/ children # <<>>) =>
            /\ ipc = "resolved"
            /\ imageData = [j \in DOMAIN imgResult |->
                                [i \in DOMAIN imgResult[j] |-> CellInTenths(imgResult[j][i])]]
            /\ cachePc = "returned"
            /\ Len(componentLibrary) = Len(rawComponentLibrary)
            /\ \A i \in DOMAIN rawComponentLibrary :
                    /\ compFate[i] # "none"
                    /\ componentLibrary[i] =
                            [id |-> rawComponentLibrary[i]] @@ CellInTenths(resolvedData[i])
    /\ (vpc # "idle" \/ variations # <<>>) =>
            /\ pc = "done"
            /\ Len(choices) = xTileCount * yTileCount

C27_StepPart ==
    LET p == PhaseOf(runPhase, vpc)
        q == PhaseOf(runPhase', vpc')
    IN  \/ q = p
        \/ q = p + 1
        \/ p = 3 /\ q = 5
        \/ p \in {0, 3} /\ q = 9

\* C27: the phases of a run follow one another in the order Idle, Sampling,
\* ExtractingTileSignatures, Laying Out, GeneratingVariations (when asked
\* for), Done; the layout starts, and a placement exists, only when the image
\* Signature grid and every tile's Signature have been settled and are the
\* ones the layout uses; a variation exists only when the primary pass has
\* processed every origin.
C27_PhasesInOrder ==
    /\ []C27_StatePart
    /\ [][C27_StepPart]_vars

\* a run that went through every phase: the image timed out, a variation was
\* generated and visited a footprint, and the handler has ended
C27_Witness ==
    /\ runPhase = "done"
    /\ resolvedBy = "timeout"
    /\ Len(children) = 10
    /\ Len(variations) = 1
    /\ planned = <<1>>

-----------------------------------------------------------------------------
(* Termination of the primary pass *)

\* the area of the emitted footprints, in grid cells
RECURSIVE OccupiedArea(_)
OccupiedArea(frame) ==
    IF frame = <<>> THEN 0
    ELSE (Head(frame).width \div tileSize) * (Head(frame).height \div tileSize)
            + OccupiedArea(Tail(frame))

\* a pass over a grid of at least 1x1 cells with a non-empty library
PassStarts ==
    /\ pc = "start"
    /\ TileCount(width, tileSize) >= 1
    /\ TileCount(height, tileSize) >= 1
    /\ Len(componentLibrary) >= 1

\* C28 as stated: the pass always terminates, and when it has terminated the
\* occupied area equals columns x rows.
C28_TerminatesFullyOccupied ==
    /\ PassStarts ~> (pc = "done")
    /\ [](pc = "done" => OccupiedArea(children) = xTileCount * yTileCount)

\* C28 amended: the pass always terminates, yields included, and when it has
\* terminated the occupied area equals columns x rows less one cell for every
\* placement that threw; it equals columns x rows when none threw.
C28_TerminatesOccupiedUpToThrows ==
    /\ PassStarts ~> (pc = "done")
    /\ [](pc = "done" => OccupiedArea(children) = xTileCount * yTileCount - thrown)

\* a pass over a row longer than one batch has ended, with one placement lost
C28_Witness ==
    /\ pc = "done"
    /\ xTileCount > BATCH_SIZE
    /\ thrown = 1
    /\ OccupiedArea(children) = xTileCount * yTileCount - 1

\* the data map that the event named by resolvedBy hands to resolve()
ImageSettledValue(by) ==
    CASE by = "timeout"        -> TimeoutGrid(runGrid)
      [] by = "export-failure" -> ExportFailureGrid(runGrid)
      [] by = "result"         -> ExtractedGrid(runGrid, imgRegion, imgWhite)
      [] by = "decode-failure" -> DefaultGrid(runGrid)

\* the data that the event named by compFate[i] hands to candidate i's promise
TileSettledValue(i) ==
    IF compFate[i] = "result"
    THEN ComponentSignature(compPixels[components[i]], cacheWhite)
    ELSE NeutralSignature

C29_StatePart ==
    /\ (ipc = "resolved") = (resolvedBy # "none")
    /\ resolvedBy # "none" => imgResult = ImageSettledValue(resolvedBy)
    /\ \A i \in DOMAIN compFate :
        /\ (compPc[i] = "settled") = (compFate[i] # "none")
        /\ compFate[i] # "none" => resolvedData[i] = TileSettledValue(i)
    /\ pc # "idle" =>
        /\ imageData = [j \in DOMAIN imgResult |->
                            [i \in DOMAIN imgResult[j] |-> CellInTenths(imgResult[j][i])]]
        /\ componentLibrary =
                [i \in DOMAIN components |->
                    [id |-> components[i]] @@ CellInTenths(resolvedData[i])]

C29_StepPart ==
    /\ ipc = "resolved" =>
        /\ ipc' = "resolved"
        /\ imgResult' = imgResult
        /\ resolvedBy' = resolvedBy
    /\ \A i \in DOMAIN compFate :
        compPc[i] = "settled" =>
            /\ i \in DOMAIN compFate'
            /\ compPc'[i] = "settled"
            /\ resolvedData'[i] = resolvedData[i]
            /\ compFate'[i] = compFate[i]

\* C29: within a run, the image request and every tile request are settled
\* exactly once, by the result message or the timeout (or the failed export),
\* whichever comes first: the settled value is the one of that event, no later
\* message or timer changes it, and the layout reads exactly these values.
C29_SettledOnceByFirstEvent ==
    /\ []C29_StatePart
    /\ [][C29_StepPart]_vars

\* a run has ended whose image request timed out before the UI's answer was
\* delivered and dropped, and one of whose tile requests was answered before
\* its timer fired; the layout was built from the timeout map
C29_Witness ==
    /\ runPhase = "done"
    /\ resolvedBy = "timeout"
    /\ uiWork = <<>> /\ inbox = <<>>
    /\ \E i \in DOMAIN compFate : compFate[i] = "result"
    /\ compTimers = {} /\ timers = {}
    /\ Len(imgResult) >= 1
    /\ imageData = [j \in DOMAIN imgResult |->
                        [i \in DOMAIN imgResult[j] |->
                            CellInTenths(TimeoutGrid(runGrid)[j][i])]]

\* getImageData's handler resolves the waiting run with the message at the
\* head of the inbox
ConsumesImageResult ==
    /\ inbox # <<>>
    /\ inbox' = Tail(inbox)
    /\ ipc = "waiting"
    /\ ipc' = "resolved"
    /\ resolvedBy' \in {"result", "decode-failure"}

\* C30: repeated runs are independent: whenever a run's image request is
\* settled by a result message, that message answers the request this run
\* posted, never the request of another run.
C30_ResultsStayInTheirRun ==
    [][ConsumesImageResult => Head(inbox).from = run]_vars

====
